---- MODULE Spec2Model ----
(***************************************************************************)
(* A model of the cashu.me wallet engine (src/src/stores/wallet.ts): the   *)
(* wallet store's state, and its asynchronous actions as processes that    *)
(* yield at every await of a network call or of the engine mutex.          *)
(***************************************************************************)
EXTENDS Integers, Sequences, FiniteSets, TLC

(***************************************************************************)
(* Bounds of the model                                                     *)
(***************************************************************************)
\* concurrently running calls of wallet actions
NProcs == 2
\* calls of wallet actions in one run
MaxCalls == 2
\* proofs that ever exist in one run (the initial ones and the minted ones)
MaxProofs == 6
\* keyset.input_fee_ppk of the active keyset, in units of 1000 ppk
InputFee == 0

Procs == 1..NProcs
Secrets == 1..MaxProofs

(***************************************************************************)
(* Values                                                                  *)
(***************************************************************************)
NoQuote == "none"
\* melt quotes the mint hands out: {quote, amount, fee_reserve}
MeltQuoteResponses ==
    { [quote |-> "q1", amount |-> 1, fee_reserve |-> 2],
      [quote |-> "q2", amount |-> 2, fee_reserve |-> 0] }
\* payInvoiceData.meltQuote.response as constructed
EmptyQuoteResponse == [quote |-> "", amount |-> 0, fee_reserve |-> 0]
\* a melt quote for which a change of amount + fee_reserve fits one blank output
RefundQuote == [quote |-> "q3", amount |-> 1, fee_reserve |-> 1]
Quotes == { r.quote : r \in MeltQuoteResponses \cup { RefundQuote } }
\* BOLT-11 invoices a user may paste
Bolt11s == { "lnbc1" }
\* payInvoiceData.invoice as constructed
EmptyInvoice == [null |-> FALSE, sat |-> 0, bolt11 |-> ""]
\* payInvoiceData.invoice = null (set by lnurlPayFirst)
NullInvoice == [null |-> TRUE, sat |-> 0, bolt11 |-> ""]
\* errors the mint's API and the cashu-ts library raise
OutputsSigned == "outputs have already been signed"
NetworkError == "network error"
MintErrors == { NetworkError, OutputsSigned }

\* the keysets of the active mint for the active unit; an id is its characters
MintKeysets ==
    << [id |-> <<"b", "6", "4">>, active |-> TRUE],
       [id |-> <<"0", "0", "a">>, active |-> FALSE],
       [id |-> <<"0", "0", "b">>, active |-> TRUE] >>

(***************************************************************************)
(* Pure helpers                                                            *)
(***************************************************************************)
RECURSIVE SumOver(_, _)
SumOver(f, S) ==
    IF S = {} THEN 0
    ELSE LET x == CHOOSE y \in S : TRUE IN f[x] + SumOver(f, S \ {x})

RECURSIVE Pow2(_)
Pow2(n) == IF n = 0 THEN 1 ELSE 2 * Pow2(n - 1)

\* Math.ceil(Math.log2(n)) for n >= 1
RECURSIVE CeilLog2From(_, _)
CeilLog2From(n, k) == IF Pow2(k) >= n THEN k ELSE CeilLog2From(n, k + 1)
CeilLog2(n) == CeilLog2From(n, 0)

startsWith00(id) == Len(id) >= 2 /\ id[1] = "0" /\ id[2] = "0"

\* getKeyset: NoKeyset stands for the thrown error
NoKeyset == << >>
\* the first keyset of the unit, whether it is active or not
getKeysetFirstOfUnit(keysets) ==
    IF Len(keysets) = 0 THEN NoKeyset ELSE keysets[1].id
getKeyset(keysets) ==
    LET isActive(k) == k.active
        isHex(k) == startsWith00(k.id)
        isBase64(k) == ~startsWith00(k.id)
        activeKeysets == SelectSeq(keysets, isActive)
        hexKeysets == SelectSeq(activeKeysets, isHex)
        base64Keysets == SelectSeq(activeKeysets, isBase64)
        sortedKeysets == hexKeysets \o base64Keysets
    IN  IF Len(sortedKeysets) = 0 THEN NoKeyset ELSE sortedKeysets[1].id

\* splitAmount: the powers of two of the set bits of value, ascending
RECURSIVE splitAmountFrom(_, _)
splitAmountFrom(value, i) ==
    IF i >= 32 \/ Pow2(i) > value THEN << >>
    ELSE (IF (value \div Pow2(i)) % 2 = 1 THEN << Pow2(i) >> ELSE << >>)
         \o splitAmountFrom(value, i + 1)
splitAmount(value) == splitAmountFrom(value, 0)


(***************************************************************************)
(* State                                                                   *)
(***************************************************************************)
VARIABLES
    pc,              \* per call slot: where the running action is suspended
    loc,             \* per call slot: the running action's arguments and locals
    mutex,           \* the engine mutex: 0 when free, else the slot holding it
    proofs,          \* the proof store (and the proof objects callers still hold)
    keysetCounters,  \* cashu.keysetCounters: keyset id -> counter
    invoiceHistory,  \* cashu.invoiceHistory
    historyTokens,   \* the token history kept by the tokens store
    payInvoiceData,  \* the pay-invoice session, with its blocking latch
    isUnloading,     \* set by the beforeunload listener
    meltState,       \* the mint: each melt quote's state and the inputs it holds
    mintSpent,       \* the mint: the proofs it has seen spent
    calls,           \* calls made so far
    last,            \* the latest call or return: its slot, action and outcome
    mnemonic,        \* cashu.mnemonic: the n-th phrase generated, 0 for ""
    oldMnemonicCounters, \* cashu.oldMnemonicCounters
    subscriptions,   \* the websocket subscriptions made: topic and whether open
    workers          \* the polling workers enqueued in the workers store

vars == << pc, loc, mutex, proofs, keysetCounters, invoiceHistory,
           historyTokens, payInvoiceData, isUnloading, meltState, mintSpent,
           calls, last, mnemonic, oldMnemonicCounters, subscriptions, workers >>

NoLoc ==
    [ op |-> "", keysetId |-> NoKeyset, proofs |-> {}, amount |-> 0,
      invalidate |-> FALSE, includeFees |-> FALSE, target |-> 0,
      proofsToSend |-> {}, sendProofs |-> {}, counter |-> 0,
      quote |-> EmptyQuoteResponse, inc |-> 0, req |-> "", err |-> "",
      payloads |-> << >>, responses |-> << >>, update_history |-> FALSE,
      weights |-> << >>, unsub |-> 0 ]

NoRet ==
    [ slot |-> 0, op |-> "", path |-> "", err |-> "", inputs |-> {}, outputs |-> {},
      quote |-> NoQuote, arg |-> << >>, value |-> << >> ]

NoProof == [ st |-> "none", amount |-> 0, reserved |-> FALSE, quote |-> NoQuote ]

(***************************************************************************)
(* The proof store (collaborator: add, remove, set_reserved, sum)          *)
(***************************************************************************)
InStore(pf) == { s \in Secrets : pf[s].st = "store" }

amountOf(pf) == [ s \in Secrets |-> pf[s].amount ]
sumProofs(pf, S) == SumOver(amountOf(pf), S)

\* the n lowest secrets no proof has yet
Unused(pf) == { s \in Secrets : pf[s].st = "none" }
RECURSIVE LowestOf(_, _)
LowestOf(S, n) ==
    IF n = 0 \/ S = {} THEN << >>
    ELSE LET m == CHOOSE x \in S : \A y \in S : x <= y
         IN  << m >> \o LowestOf(S \ {m}, n - 1)
Range(f) == { f[i] : i \in DOMAIN f }

\* mintStore.addProofs: new proofs with the given amounts, under the secrets ss
addProofs(pf, ss, amounts) ==
    [ s \in Secrets |->
        IF \E i \in DOMAIN ss : ss[i] = s
        THEN LET i == CHOOSE j \in DOMAIN ss : ss[j] = s
             IN  [ st |-> "store", amount |-> amounts[i], reserved |-> FALSE,
                   quote |-> NoQuote ]
        ELSE pf[s] ]

\* mintStore.removeProofs: by secret
removeProofs(pf, S) ==
    [ s \in Secrets |->
        IF s \in S /\ pf[s].st = "store" THEN [ pf[s] EXCEPT !.st = "gone" ] ELSE pf[s] ]

\* proofsStore.setReserved: the stored proofs with these secrets
setReserved(pf, S, reserved, quote) ==
    [ s \in Secrets |->
        IF s \in S /\ pf[s].st = "store"
        THEN [ pf[s] EXCEPT !.reserved = reserved, !.quote = quote ]
        ELSE pf[s] ]

\* proofsStore.getUnreservedProofs
getUnreservedProofs(pf, S) == { s \in S : ~pf[s].reserved }

(***************************************************************************)
(* The cashu-ts wallet (collaborator)                                      *)
(***************************************************************************)
\* wallet.getFeesForProofs
getFeesForProofs(S) == Cardinality(S) * InputFee

\* wallet.selectProofsToSend: the sets it may return as `send`: any that covers
\* the amount (and its own fees) with no proof to spare, [] when none does
selectProofsToSend(pf, S, amount, includeFees) ==
    LET covers(T) == sumProofs(pf, T) >=
                       amount + (IF includeFees THEN getFeesForProofs(T) ELSE 0)
        covering == { T \in SUBSET S :
                        covers(T) /\ \A t \in T : ~covers(T \ {t}) }
    IN  IF covering = {} THEN { {} } ELSE covering

(***************************************************************************)
(* Keyset counters                                                         *)
(***************************************************************************)
\* keysetCounter(id): the stored counters after the read
keysetCounterStore(kc, id) == IF id \in DOMAIN kc THEN kc ELSE kc @@ (id :> 1)
\* keysetCounter(id): the value returned
keysetCounter(kc, id) == keysetCounterStore(kc, id)[id]

\* a counter bump that lowers the counter instead
lowerKeysetCounter(kc, id, by) ==
    IF id \in DOMAIN kc THEN [ kc EXCEPT ![id] = @ - by ] ELSE kc @@ (id :> -by)

increaseKeysetCounter(kc, id, by) ==
    IF id \in DOMAIN kc THEN [ kc EXCEPT ![id] = @ + by ] ELSE kc @@ (id :> by)

handleOutputsHaveAlreadyBeenSignedError(kc, id, err) ==
    IF err = OutputsSigned THEN increaseKeysetCounter(kc, id, 10) ELSE kc

\* coinSelect: the selections it may return
coinSelect(pf, S, amount, includeFees) ==
    IF sumProofs(pf, S) < amount THEN { {} }
    ELSE selectProofsToSend(pf, S, amount, includeFees)

\* a spendableProofs that does not filter
spendableProofsUnfiltered(pf, S) == S

\* spendableProofs: the proofs returned, and when it throws "Balance too low"
spendableProofs(pf, S) == getUnreservedProofs(pf, S)
BalanceTooLow(pf, S, amount) == sumProofs(pf, spendableProofs(pf, S)) < amount

(***************************************************************************)
(* Invoice history                                                         *)
(***************************************************************************)
\* removeOutgoingInvoiceFromHistory: the first entry of the quote goes
removeOutgoingInvoiceFromHistory(h, quote) ==
    IF \E i \in DOMAIN h : h[i].quote = quote
    THEN LET index == CHOOSE i \in DOMAIN h :
                         h[i].quote = quote /\ \A j \in 1..(i - 1) : h[j].quote # quote
         IN  SubSeq(h, 1, index - 1) \o SubSeq(h, index + 1, Len(h))
    ELSE h

\* updateInvoiceInHistory(quote, {status, amount}): a falsy option is skipped
updateInvoiceInHistory(h, quote, status, amount) ==
    [ i \in DOMAIN h |->
        IF h[i].quote = quote
        THEN [ h[i] EXCEPT !.status = IF status # "" THEN status ELSE @,
                           !.amount = IF amount # 0 THEN amount ELSE @ ]
        ELSE h[i] ]

\* a setInvoicePaid that finds no entry
setInvoicePaidFindsNone(h, quote) == h

\* setInvoicePaid: the first entry of the quote
setInvoicePaid(h, quote) ==
    [ i \in DOMAIN h |->
        IF h[i].quote = quote /\ \A j \in 1..(i - 1) : h[j].quote # quote
        THEN [ h[i] EXCEPT !.status = "paid" ]
        ELSE h[i] ]


(***************************************************************************)
(* Initial state: a wallet that holds three proofs, with or without a      *)
(* stored counter (a rotated mnemonic leaves none), and a pay-invoice      *)
(* session as constructed or holding the melt quote of a decoded invoice.  *)
(***************************************************************************)
KeysetId == getKeyset(MintKeysets)

InitProofs ==
    [ s \in Secrets |->
        IF s = 1 THEN [ NoProof EXCEPT !.st = "store", !.amount = 1 ]
        ELSE IF s = 2 THEN [ NoProof EXCEPT !.st = "store", !.amount = 2 ]
        ELSE IF s = 3 THEN [ NoProof EXCEPT !.st = "store", !.amount = 4 ]
        ELSE NoProof ]

\* payInvoiceData.input.amount: null or a number
NullAmount == [ null |-> TRUE, value |-> 0 ]
\* payInvoiceData.lnurlpay before any payRequest was stored
EmptyLnurlpay == [ tag |-> "", minSendable |-> 0, maxSendable |-> 0, domain |-> "" ]
NewSession ==
    [ blocking |-> FALSE,
      show |-> FALSE,
      invoice |-> EmptyInvoice,
      lnurlpay |-> EmptyLnurlpay,
      request |-> "",
      amount |-> NullAmount,
      meltQuote |-> [ response |-> EmptyQuoteResponse, error |-> "" ],
      multiPartMeltQuotes |-> [ payloads |-> << >>, responses |-> << >>, error |-> "" ] ]

\* bolt11Decoder.decode and the clean invoice built from it
InvoiceSat == 2
decode(request) == [ null |-> FALSE, sat |-> InvoiceSat, bolt11 |-> request ]

LoadedSession(b, r) ==
    [ NewSession EXCEPT !.invoice = decode(b),
                        !.request = b,
                        !.meltQuote.response = r ]

Init ==
    /\ pc = [ p \in Procs |-> "idle" ]
    /\ loc = [ p \in Procs |-> NoLoc ]
    /\ mutex = 0
    /\ proofs = InitProofs
    /\ keysetCounters \in { << >>, (KeysetId :> 1) }
    /\ invoiceHistory = << >>
    /\ historyTokens = << >>
    /\ payInvoiceData \in { NewSession } \cup
           { LoadedSession(b, r) : b \in Bolt11s, r \in MeltQuoteResponses }
    /\ isUnloading = FALSE
    /\ meltState = [ q \in Quotes |-> [ state |-> "UNPAID", inputs |-> {} ] ]
    /\ mintSpent = {}
    /\ calls = 0
    /\ last = NoRet
    /\ mnemonic = 1
    /\ oldMnemonicCounters = << >>
    /\ subscriptions = << >>
    /\ workers = {}

\* the same wallet with a session that may also hold the quote RefundQuote
InitMelt ==
    /\ pc = [ p \in Procs |-> "idle" ]
    /\ loc = [ p \in Procs |-> NoLoc ]
    /\ mutex = 0
    /\ proofs = InitProofs
    /\ keysetCounters \in { << >>, (KeysetId :> 1) }
    /\ invoiceHistory = << >>
    /\ historyTokens = << >>
    /\ payInvoiceData \in
           { LoadedSession(b, r) : b \in Bolt11s,
                                   r \in MeltQuoteResponses \cup { RefundQuote } }
    /\ isUnloading = FALSE
    /\ meltState = [ q \in Quotes |-> [ state |-> "UNPAID", inputs |-> {} ] ]
    /\ mintSpent = {}
    /\ calls = 0
    /\ last = NoRet
    /\ mnemonic = 1
    /\ oldMnemonicCounters = << >>
    /\ subscriptions = << >>
    /\ workers = {}

\* a token of the 1- and 2-sat proofs has been sent: the proofs are reserved
\* and the token is pending in the history, with the negative amount
SentToken == { 1, 2 }
InitSent ==
    /\ pc = [ p \in Procs |-> "idle" ]
    /\ loc = [ p \in Procs |-> NoLoc ]
    /\ mutex = 0
    /\ proofs = setReserved(InitProofs, SentToken, TRUE, NoQuote)
    /\ keysetCounters \in { << >>, (KeysetId :> 1) }
    /\ invoiceHistory = << >>
    /\ historyTokens = << [ amount |-> -sumProofs(InitProofs, SentToken),
                            status |-> "pending", token |-> SentToken ] >>
    /\ payInvoiceData \in { NewSession } \cup
           { LoadedSession(b, r) : b \in Bolt11s, r \in MeltQuoteResponses }
    /\ isUnloading = FALSE
    /\ meltState = [ q \in Quotes |-> [ state |-> "UNPAID", inputs |-> {} ] ]
    /\ mintSpent = {}
    /\ calls = 0
    /\ last = NoRet
    /\ mnemonic = 1
    /\ oldMnemonicCounters = << >>
    /\ subscriptions = << >>
    /\ workers = {}

(***************************************************************************)
(* Calls and returns                                                       *)
(***************************************************************************)
\* slot p is free and the run may make one more call
Call(p) ==
    /\ pc[p] = "idle"
    /\ \A q \in Procs : pc[q] = "idle" => p <= q
    /\ ~isUnloading
    /\ calls < MaxCalls
    /\ calls' = calls + 1

\* slot p is free for a call that throws at its entry checks (these are not
\* counted: they leave the wallet as it was)
Reject(p) ==
    /\ pc[p] = "idle"
    /\ \A q \in Procs : pc[q] = "idle" => p <= q
    /\ ~isUnloading
    /\ calls' = calls

\* the action of slot p ends: r says how
Return(p, r) ==
    /\ pc' = [ pc EXCEPT ![p] = "idle" ]
    /\ loc' = [ loc EXCEPT ![p] = NoLoc ]
    /\ last' = [ r EXCEPT !.slot = p ]

\* unsub(): the subscription is closed
unsub(subs, n) == [ subs EXCEPT ![n].open = FALSE ]
\* the websocket callback that awaited the action of slot p goes on: it calls
\* unsub() when the action returned (mint its proofs, checkTokenSpendable true)
\* and is left by the exception when the action threw
callbackResumes(p, r) ==
    IF loc[p].unsub # 0 /\ r.path = "ok" THEN unsub(subscriptions, loc[p].unsub)
    ELSE subscriptions

\* the action of slot p returns or throws r, to a websocket callback if one
\* called it
Exit(p, r) ==
    /\ Return(p, r)
    /\ subscriptions' = callbackResumes(p, r)
    /\ UNCHANGED << mnemonic, oldMnemonicCounters, workers >>

\* the action of slot p goes on at label l with locals v
Goto(p, l, v) ==
    /\ pc' = [ pc EXCEPT ![p] = l ]
    /\ loc' = [ loc EXCEPT ![p] = v ]
    /\ last' = last
    /\ UNCHANGED << mnemonic, oldMnemonicCounters, subscriptions, workers >>

\* the action o called in slot p passes its entry checks and suspends at label l
Start(p, o, l, v) ==
    /\ pc' = [ pc EXCEPT ![p] = l ]
    /\ loc' = [ loc EXCEPT ![p] = v ]
    /\ last' = [ NoRet EXCEPT !.slot = p, !.op = o, !.path = "called" ]
    /\ UNCHANGED << mnemonic, oldMnemonicCounters, subscriptions, workers >>

\* uIStore.lockMutex, once the mutex is free
lockMutex(p) == mutex = 0 /\ mutex' = p
\* uIStore.unlockMutex
unlockMutex == mutex' = 0


(***************************************************************************)
(* send (also the first half of melt)                                      *)
(***************************************************************************)
\* send returns or throws: to its caller when melt called it
sendEnd(p, ok, err, keepProofs, sendProofs, path) ==
    IF loc[p].op = "melt"
    THEN IF ok /\ sendProofs # {}
         THEN Goto(p, "melt_lock", [ loc[p] EXCEPT !.sendProofs = sendProofs,
                                                   !.proofsToSend = {} ])
         ELSE Exit(p, [ NoRet EXCEPT !.op = "melt", !.path = "send_failed",
                          !.err = IF ok THEN "could not split proofs." ELSE err,
                          !.quote = loc[p].quote.quote ])
    ELSE Exit(p, [ NoRet EXCEPT !.op = "send", !.path = path, !.err = err,
                     !.inputs = sendProofs, !.outputs = keepProofs ])

sendCall(p, amount, invalidate, includeFees) ==
    /\ Call(p)
    /\ IF KeysetId = NoKeyset
       THEN Exit(p, [ NoRet EXCEPT !.op = "send", !.path = "no_keyset",
                        !.err = "no active keysets found for unit" ])
       ELSE Start(p, "send", "send_lock",
                 [ NoLoc EXCEPT !.op = "send", !.keysetId = KeysetId,
                                !.proofs = InStore(proofs), !.amount = amount,
                                !.invalidate = invalidate, !.includeFees = includeFees ])
    /\ UNCHANGED << mutex, proofs, keysetCounters, invoiceHistory, historyTokens,
                    payInvoiceData, isUnloading, meltState, mintSpent >>

sendLock(p) ==
    /\ pc[p] = "send_lock"
    /\ lockMutex(p)
    /\ Goto(p, "send_cs", loc[p])
    /\ UNCHANGED << proofs, keysetCounters, invoiceHistory, historyTokens,
                    payInvoiceData, isUnloading, meltState, mintSpent, calls >>

\* spendableProofs throws; the catch block finds no proofsToSend to unreserve
sendBalanceTooLow(p) ==
    /\ pc[p] = "send_cs"
    /\ BalanceTooLow(proofs, loc[p].proofs, loc[p].amount)
    /\ proofs' = setReserved(proofs, {}, FALSE, NoQuote)
    /\ keysetCounters' =
         handleOutputsHaveAlreadyBeenSignedError(keysetCounters, loc[p].keysetId,
                                                 "Balance too low")
    /\ unlockMutex
    /\ sendEnd(p, FALSE, "Balance too low", {}, {}, "balance_too_low")
    /\ UNCHANGED << invoiceHistory, historyTokens, payInvoiceData, isUnloading,
                    meltState, mintSpent, calls >>

\* a send without split that leaves the proofs in the store when invalidate is set
sendNoSplitKeepsProofs(p) ==
    /\ pc[p] = "send_cs"
    /\ ~BalanceTooLow(proofs, loc[p].proofs, loc[p].amount)
    /\ \E proofsToSend \in coinSelect(proofs, spendableProofs(proofs, loc[p].proofs),
                                      loc[p].amount, loc[p].includeFees) :
         LET totalAmount == sumProofs(proofs, proofsToSend)
             fees == IF loc[p].includeFees THEN getFeesForProofs(proofsToSend) ELSE 0
             targetAmount == loc[p].amount + fees
         IN  /\ totalAmount = targetAmount
             /\ proofs' = setReserved(proofs, proofsToSend, TRUE, NoQuote)
             /\ sendEnd(p, TRUE, "", {}, proofsToSend, "no_split")
    /\ unlockMutex
    /\ UNCHANGED << keysetCounters, invoiceHistory, historyTokens, payInvoiceData,
                    isUnloading, meltState, mintSpent, calls >>

\* the selected proofs sum to amount + fees: they are the proofs to send
sendNoSplit(p) ==
    /\ pc[p] = "send_cs"
    /\ ~BalanceTooLow(proofs, loc[p].proofs, loc[p].amount)
    /\ \E proofsToSend \in coinSelect(proofs, spendableProofs(proofs, loc[p].proofs),
                                      loc[p].amount, loc[p].includeFees) :
         LET totalAmount == sumProofs(proofs, proofsToSend)
             fees == IF loc[p].includeFees THEN getFeesForProofs(proofsToSend) ELSE 0
             targetAmount == loc[p].amount + fees
             afterInvalidate == IF loc[p].invalidate
                                THEN removeProofs(proofs, proofsToSend) ELSE proofs
         IN  /\ totalAmount = targetAmount
             /\ proofs' = setReserved(afterInvalidate, proofsToSend, TRUE, NoQuote)
             /\ sendEnd(p, TRUE, "", {}, proofsToSend, "no_split")
    /\ unlockMutex
    /\ UNCHANGED << keysetCounters, invoiceHistory, historyTokens, payInvoiceData,
                    isUnloading, meltState, mintSpent, calls >>

\* the selected proofs do not sum to amount + fees: read the counter, select
\* again for the target with fees and ask the mint for the split
sendSplitRequest(p) ==
    /\ pc[p] = "send_cs"
    /\ ~BalanceTooLow(proofs, loc[p].proofs, loc[p].amount)
    /\ \E first \in coinSelect(proofs, spendableProofs(proofs, loc[p].proofs),
                               loc[p].amount, loc[p].includeFees) :
         LET totalAmount == sumProofs(proofs, first)
             fees == IF loc[p].includeFees THEN getFeesForProofs(first) ELSE 0
             targetAmount == loc[p].amount + fees
         IN  /\ totalAmount # targetAmount
             /\ \E proofsToSend \in coinSelect(proofs,
                                       spendableProofs(proofs, loc[p].proofs),
                                       targetAmount, TRUE) :
                  Goto(p, "send_wait",
                       [ loc[p] EXCEPT !.target = targetAmount,
                                       !.proofsToSend = proofsToSend,
                                       !.counter = keysetCounter(keysetCounters,
                                                                 loc[p].keysetId) ])
    /\ keysetCounters' = keysetCounterStore(keysetCounters, loc[p].keysetId)
    /\ UNCHANGED << mutex, proofs, invoiceHistory, historyTokens, payInvoiceData,
                    isUnloading, meltState, mintSpent, calls >>

\* a split that leaves the candidates in the store
sendSplitOkKeepsCandidates(p) ==
    /\ pc[p] = "send_wait"
    /\ loc[p].proofsToSend # {}
    /\ loc[p].proofsToSend \cap mintSpent = {}
    /\ LET proofsToSend == loc[p].proofsToSend
           keepSum == sumProofs(proofs, proofsToSend) - loc[p].target
                        - getFeesForProofs(proofsToSend)
       IN  /\ keepSum >= 0
           /\ LET keepAmounts == splitAmount(keepSum)
                  sendAmounts == splitAmount(loc[p].target)
                  n == Len(keepAmounts) + Len(sendAmounts)
                  fresh == LowestOf(Unused(proofs), n)
                  keepSecrets == SubSeq(fresh, 1, Len(keepAmounts))
                  sendSecrets == SubSeq(fresh, Len(keepAmounts) + 1, n)
                  keepProofs == Range(keepSecrets)
                  sendProofs == Range(sendSecrets)
                  added == addProofs(addProofs(proofs, keepSecrets, keepAmounts),
                                     sendSecrets, sendAmounts)
                  removed == added
                  afterInvalidate == IF loc[p].invalidate
                                     THEN removeProofs(removed, sendProofs) ELSE removed
              IN  /\ Len(fresh) = n
                  /\ keysetCounters' = increaseKeysetCounter(keysetCounters,
                                           loc[p].keysetId, n)
                  /\ proofs' = setReserved(afterInvalidate, sendProofs, TRUE, NoQuote)
                  /\ sendEnd(p, TRUE, "", keepProofs, sendProofs, "split")
    /\ mintSpent' = mintSpent \cup loc[p].proofsToSend
    /\ unlockMutex
    /\ UNCHANGED << invoiceHistory, historyTokens, payInvoiceData, isUnloading,
                    meltState, calls >>

\* wallet.send returns keep and send proofs: store them, drop the inputs
sendSplitOk(p) ==
    /\ pc[p] = "send_wait"
    /\ loc[p].proofsToSend # {}
    /\ loc[p].proofsToSend \cap mintSpent = {}
    /\ LET proofsToSend == loc[p].proofsToSend
           keepSum == sumProofs(proofs, proofsToSend) - loc[p].target
                        - getFeesForProofs(proofsToSend)
       IN  /\ keepSum >= 0
           /\ LET keepAmounts == splitAmount(keepSum)
                  sendAmounts == splitAmount(loc[p].target)
                  n == Len(keepAmounts) + Len(sendAmounts)
                  fresh == LowestOf(Unused(proofs), n)
                  keepSecrets == SubSeq(fresh, 1, Len(keepAmounts))
                  sendSecrets == SubSeq(fresh, Len(keepAmounts) + 1, n)
                  keepProofs == Range(keepSecrets)
                  sendProofs == Range(sendSecrets)
                  added == addProofs(addProofs(proofs, keepSecrets, keepAmounts),
                                     sendSecrets, sendAmounts)
                  removed == removeProofs(added, proofsToSend)
                  afterInvalidate == IF loc[p].invalidate
                                     THEN removeProofs(removed, sendProofs) ELSE removed
              IN  /\ Len(fresh) = n
                  /\ keysetCounters' = increaseKeysetCounter(keysetCounters,
                                           loc[p].keysetId, n)
                  /\ proofs' = setReserved(afterInvalidate, sendProofs, TRUE, NoQuote)
                  /\ sendEnd(p, TRUE, "", keepProofs, sendProofs, "split")
    /\ mintSpent' = mintSpent \cup loc[p].proofsToSend
    /\ unlockMutex
    /\ UNCHANGED << invoiceHistory, historyTokens, payInvoiceData, isUnloading,
                    meltState, calls >>

\* a catch block that drops the candidates from the store
sendSplitFailDropsCandidates(p, err) ==
    /\ pc[p] = "send_wait"
    /\ proofs' = removeProofs(proofs, loc[p].proofsToSend)
    /\ keysetCounters' =
         handleOutputsHaveAlreadyBeenSignedError(keysetCounters, loc[p].keysetId, err)
    /\ unlockMutex
    /\ sendEnd(p, FALSE, err, {}, {}, "split_failed")
    /\ UNCHANGED << invoiceHistory, historyTokens, payInvoiceData, isUnloading,
                    meltState, mintSpent, calls >>

\* wallet.send throws: unreserve the candidates, probe for "outputs already signed"
sendSplitFail(p, err) ==
    /\ pc[p] = "send_wait"
    /\ proofs' = setReserved(proofs, loc[p].proofsToSend, FALSE, NoQuote)
    /\ keysetCounters' =
         handleOutputsHaveAlreadyBeenSignedError(keysetCounters, loc[p].keysetId, err)
    /\ unlockMutex
    /\ sendEnd(p, FALSE, err, {}, {}, "split_failed")
    /\ UNCHANGED << invoiceHistory, historyTokens, payInvoiceData, isUnloading,
                    meltState, mintSpent, calls >>


(***************************************************************************)
(* melt                                                                    *)
(***************************************************************************)
\* entry checks of melt that look neither at the latch nor at the history
meltRejectionInvoiceOnly ==
    IF payInvoiceData.invoice.null THEN "no invoice provided." ELSE ""

\* why melt throws before it selects any proof; "" when it does not
meltRejection ==
    IF payInvoiceData.blocking THEN "already processing an invoice."
    ELSE IF payInvoiceData.invoice.null THEN "no invoice provided."
    ELSE IF \E i \in DOMAIN invoiceHistory :
               /\ invoiceHistory[i].bolt11 = payInvoiceData.invoice.bolt11
               /\ invoiceHistory[i].amount < 0
               /\ invoiceHistory[i].status = "paid"
         THEN "invoice already paid."
    ELSE IF KeysetId = NoKeyset THEN "no active keysets found for unit"
    ELSE ""

meltReject(p) ==
    /\ Reject(p)
    /\ meltRejection # ""
    /\ Exit(p, [ NoRet EXCEPT !.op = "melt", !.path = "rejected",
                   !.err = meltRejection ])
    /\ UNCHANGED << mutex, proofs, keysetCounters, invoiceHistory, historyTokens,
                    payInvoiceData, isUnloading, meltState, mintSpent >>

\* a melt that takes the mutex before it calls send
meltCallLocksFirst(p) ==
    /\ Call(p)
    /\ meltRejection = ""
    /\ lockMutex(p)
    /\ LET quote == payInvoiceData.meltQuote.response
       IN  Start(p, "melt", "send_lock",
                [ NoLoc EXCEPT !.op = "melt", !.keysetId = KeysetId,
                               !.quote = quote,
                               !.proofs = InStore(proofs),
                               !.amount = quote.amount + quote.fee_reserve,
                               !.invalidate = FALSE, !.includeFees = TRUE ])
    /\ UNCHANGED << proofs, keysetCounters, invoiceHistory, historyTokens,
                    payInvoiceData, isUnloading, meltState, mintSpent >>

\* melt passes its checks and calls send(activeProofs, amount, false, true)
meltCall(p) ==
    /\ Call(p)
    /\ meltRejection = ""
    /\ LET quote == payInvoiceData.meltQuote.response
       IN  Start(p, "melt", "send_lock",
                [ NoLoc EXCEPT !.op = "melt", !.keysetId = KeysetId,
                               !.quote = quote,
                               !.proofs = InStore(proofs),
                               !.amount = quote.amount + quote.fee_reserve,
                               !.invalidate = FALSE, !.includeFees = TRUE ])
    /\ UNCHANGED << mutex, proofs, keysetCounters, invoiceHistory, historyTokens,
                    payInvoiceData, isUnloading, meltState, mintSpent >>

meltLock(p) ==
    /\ pc[p] = "melt_lock"
    /\ lockMutex(p)
    /\ Goto(p, "melt_cs", loc[p])
    /\ UNCHANGED << proofs, keysetCounters, invoiceHistory, historyTokens,
                    payInvoiceData, isUnloading, meltState, mintSpent, calls >>

\* the entry recorded as paid from the start
addOutgoingPaidInvoiceToHistory(h, quote, request) ==
    Append(h, [ amount |-> -(quote.amount + quote.fee_reserve),
                bolt11 |-> request,
                quote |-> quote.quote,
                status |-> "paid" ])

\* addOutgoingPendingInvoiceToHistory: reserve the proofs for the quote, append
\* the pending entry
addOutgoingPendingInvoiceToHistory(h, quote, request) ==
    Append(h, [ amount |-> -(quote.amount + quote.fee_reserve),
                bolt11 |-> request,
                quote |-> quote.quote,
                status |-> "pending" ])

\* one blank output whatever the fee reserve
countChangeOutputsSingle(fee_reserve) == 1
\* Math.ceil(Math.log2(fee_reserve)) || 1
countChangeOutputs(fee_reserve) ==
    IF CeilLog2(fee_reserve) = 0 THEN 1 ELSE CeilLog2(fee_reserve)

\* the counter after melt's bumps, and the increase melt remembers
meltBumped(kc, id, nSend, fee_reserve) ==
    LET read == keysetCounterStore(kc, id)
        bySend == increaseKeysetCounter(read, id, nSend)
    IN  IF fee_reserve > 0
        THEN increaseKeysetCounter(bySend, id, countChangeOutputs(fee_reserve))
        ELSE bySend
keysetCounterIncrease(nSend, fee_reserve) ==
    IF fee_reserve > 0 THEN countChangeOutputs(fee_reserve) ELSE 0

\* the pending entry, the reservation, the counter bumps, then the melt request
meltRequest(p) ==
    /\ pc[p] = "melt_cs"
    /\ proofs' = setReserved(proofs, loc[p].sendProofs, TRUE, loc[p].quote.quote)
    /\ invoiceHistory' = addOutgoingPendingInvoiceToHistory(invoiceHistory,
                             loc[p].quote, payInvoiceData.request)
    /\ keysetCounters' = meltBumped(keysetCounters, loc[p].keysetId,
                                    Cardinality(loc[p].sendProofs),
                                    loc[p].quote.fee_reserve)
    /\ Goto(p, "melt_wait",
            [ loc[p] EXCEPT !.counter = keysetCounter(keysetCounters, loc[p].keysetId),
                            !.inc = keysetCounterIncrease(Cardinality(loc[p].sendProofs),
                                                          loc[p].quote.fee_reserve),
                            !.req = "sent" ])
    /\ UNCHANGED << mutex, historyTokens, payInvoiceData, isUnloading, meltState,
                    mintSpent, calls >>

\* the mint returns the quote PAID with change proofs summing to c
meltOk(p, c) ==
    /\ pc[p] = "melt_wait"
    /\ loc[p].req = "accepted"
    /\ loc[p].quote.quote \in Quotes
    /\ meltState[loc[p].quote.quote].state = "PAID"
    /\ LET quote == loc[p].quote
           amount == quote.amount + quote.fee_reserve
           changeAmounts == splitAmount(c)
           fresh == LowestOf(Unused(proofs), Len(changeAmounts))
           amount_paid == amount - c
       IN  /\ Len(changeAmounts) <= loc[p].inc
           /\ Len(fresh) = Len(changeAmounts)
           /\ proofs' = addProofs(removeProofs(proofs, loc[p].sendProofs),
                                  fresh, changeAmounts)
           /\ historyTokens' = Append(historyTokens,
                                      [ amount |-> -amount_paid, status |-> "paid",
                                        token |-> loc[p].sendProofs ])
           /\ invoiceHistory' = updateInvoiceInHistory(invoiceHistory, quote.quote,
                                                       "paid", -amount_paid)
           /\ Exit(p, [ NoRet EXCEPT !.op = "melt", !.path = "ok",
                          !.inputs = loc[p].sendProofs, !.outputs = Range(fresh),
                          !.quote = quote.quote ])
    /\ payInvoiceData' = [ payInvoiceData EXCEPT !.invoice = EmptyInvoice ]
    /\ unlockMutex
    /\ UNCHANGED << keysetCounters, isUnloading, meltState, mintSpent, calls >>

\* a catch block that re-queries the quote also when the app is unloading
meltCatchRequeries(p, err) ==
    /\ Goto(p, "melt_requery", [ loc[p] EXCEPT !.err = err ])
    /\ mutex' = mutex

\* the catch block, up to its await: rethrow when unloading, else re-query
meltCatch(p, err) ==
    IF isUnloading
    THEN /\ Exit(p, [ NoRet EXCEPT !.op = "melt", !.path = "unloading", !.err = err,
                        !.inputs = loc[p].sendProofs, !.quote = loc[p].quote.quote ])
         /\ unlockMutex
    ELSE /\ Goto(p, "melt_requery", [ loc[p] EXCEPT !.err = err ])
         /\ mutex' = mutex

\* meltProofs returns a quote that is not PAID
meltNotPaid(p) ==
    /\ pc[p] = "melt_wait"
    /\ loc[p].quote.quote \in Quotes
    /\ \/ loc[p].req = "accepted" /\ meltState[loc[p].quote.quote].state = "PENDING"
       \/ loc[p].req = "failed"
    /\ meltCatch(p, "Invoice not paid.")
    /\ UNCHANGED << proofs, keysetCounters, invoiceHistory, historyTokens,
                    payInvoiceData, isUnloading, meltState, mintSpent, calls >>

\* meltProofs throws
meltThrow(p, err) ==
    /\ pc[p] = "melt_wait"
    /\ meltCatch(p, err)
    /\ UNCHANGED << proofs, keysetCounters, invoiceHistory, historyTokens,
                    payInvoiceData, isUnloading, meltState, mintSpent, calls >>

\* what checkMeltQuote answers for a quote
checkMeltQuote(quote) ==
    IF quote \in Quotes THEN meltState[quote].state ELSE "UNPAID"

\* a re-query that rolls back although the quote is PAID or PENDING
meltRequeryKeepRollsBack(p) ==
    /\ pc[p] = "melt_requery"
    /\ checkMeltQuote(loc[p].quote.quote) \in { "PAID", "PENDING" }
    /\ proofs' = setReserved(proofs, loc[p].sendProofs, FALSE, NoQuote)
    /\ keysetCounters' = increaseKeysetCounter(keysetCounters, loc[p].keysetId,
                                                -loc[p].inc)
    /\ invoiceHistory' = removeOutgoingInvoiceFromHistory(invoiceHistory,
                                                          loc[p].quote.quote)
    /\ Exit(p, [ NoRet EXCEPT !.op = "melt", !.path = "keep", !.err = loc[p].err,
                   !.inputs = loc[p].sendProofs, !.quote = loc[p].quote.quote ])
    /\ unlockMutex
    /\ UNCHANGED << historyTokens, payInvoiceData, isUnloading, meltState, mintSpent,
                    calls >>

\* the re-queried quote is PAID or PENDING: no rollback, rethrow
meltRequeryKeep(p) ==
    /\ pc[p] = "melt_requery"
    /\ checkMeltQuote(loc[p].quote.quote) \in { "PAID", "PENDING" }
    /\ Exit(p, [ NoRet EXCEPT !.op = "melt", !.path = "keep", !.err = loc[p].err,
                   !.inputs = loc[p].sendProofs, !.quote = loc[p].quote.quote ])
    /\ unlockMutex
    /\ UNCHANGED << proofs, keysetCounters, invoiceHistory, historyTokens,
                    payInvoiceData, isUnloading, meltState, mintSpent, calls >>

\* the re-queried quote is UNPAID: roll back reservation, counter and history
meltRollback(p) ==
    /\ pc[p] = "melt_requery"
    /\ checkMeltQuote(loc[p].quote.quote) = "UNPAID"
    /\ proofs' = setReserved(proofs, loc[p].sendProofs, FALSE, NoQuote)
    /\ keysetCounters' =
         handleOutputsHaveAlreadyBeenSignedError(
             increaseKeysetCounter(keysetCounters, loc[p].keysetId, -loc[p].inc),
             loc[p].keysetId, loc[p].err)
    /\ invoiceHistory' = removeOutgoingInvoiceFromHistory(invoiceHistory,
                                                          loc[p].quote.quote)
    /\ Exit(p, [ NoRet EXCEPT !.op = "melt", !.path = "rollback", !.err = loc[p].err,
                   !.inputs = loc[p].sendProofs, !.quote = loc[p].quote.quote ])
    /\ unlockMutex
    /\ UNCHANGED << historyTokens, payInvoiceData, isUnloading, meltState, mintSpent,
                    calls >>

\* a failing re-query that leaves without the finally block
meltRequeryThrowsLocked(p) ==
    /\ pc[p] = "melt_requery"
    /\ Exit(p, [ NoRet EXCEPT !.op = "melt", !.path = "requery_failed",
                   !.err = NetworkError, !.inputs = loc[p].sendProofs,
                   !.quote = loc[p].quote.quote ])
    /\ UNCHANGED << mutex, proofs, keysetCounters, invoiceHistory, historyTokens,
                    payInvoiceData, isUnloading, meltState, mintSpent, calls >>

\* the re-query itself throws: its error leaves the catch block
meltRequeryThrows(p) ==
    /\ pc[p] = "melt_requery"
    /\ Exit(p, [ NoRet EXCEPT !.op = "melt", !.path = "requery_failed",
                   !.err = NetworkError, !.inputs = loc[p].sendProofs,
                   !.quote = loc[p].quote.quote ])
    /\ unlockMutex
    /\ UNCHANGED << proofs, keysetCounters, invoiceHistory, historyTokens,
                    payInvoiceData, isUnloading, meltState, mintSpent, calls >>

(***************************************************************************)
(* meltQuote, multiPathMeltQuotes and handleBolt11Invoice                  *)
(***************************************************************************)
AlreadyProcessing == "already processing an melt quote."

\* meltQuote returns or throws: to handleBolt11Invoice when it called
meltQuoteEnd(p, ok, path, err) ==
    IF loc[p].op = "handleBolt11Invoice" /\ ok
    THEN Goto(p, "mpp_enter", loc[p])
    ELSE Exit(p, [ NoRet EXCEPT !.op = IF loc[p].op = "" THEN "meltQuote" ELSE loc[p].op,
                     !.path = path, !.err = err ])

\* the latch is set: meltQuote throws and touches nothing
meltQuoteReject(p) ==
    /\ Reject(p)
    /\ payInvoiceData.blocking
    /\ Exit(p, [ NoRet EXCEPT !.op = "meltQuote", !.path = "rejected",
                   !.err = AlreadyProcessing ])
    /\ UNCHANGED << mutex, proofs, keysetCounters, invoiceHistory, historyTokens,
                    payInvoiceData, isUnloading, meltState, mintSpent >>

\* the latch is clear: set it, clear the error, ask the mint for a quote
meltQuoteCall(p) ==
    /\ Call(p)
    /\ ~payInvoiceData.blocking
    /\ IF payInvoiceData.request = ""
       THEN /\ payInvoiceData' = [ payInvoiceData EXCEPT
                                     !.blocking = FALSE,
                                     !.meltQuote.error = "no invoice provided." ]
            /\ Exit(p, [ NoRet EXCEPT !.op = "meltQuote", !.path = "failed",
                           !.err = "no invoice provided." ])
       ELSE /\ payInvoiceData' = [ payInvoiceData EXCEPT !.blocking = TRUE,
                                                         !.meltQuote.error = "" ]
            /\ Start(p, "meltQuote", "meltQuote_wait",
                     [ NoLoc EXCEPT !.op = "meltQuote" ])
    /\ UNCHANGED << mutex, proofs, keysetCounters, invoiceHistory, historyTokens,
                    isUnloading, meltState, mintSpent >>

\* createMeltQuote answers r
meltQuoteOk(p, r) ==
    /\ pc[p] = "meltQuote_wait"
    /\ payInvoiceData' = [ payInvoiceData EXCEPT !.meltQuote.response = r,
                                                 !.blocking = FALSE ]
    /\ meltQuoteEnd(p, TRUE, "ok", "")
    /\ UNCHANGED << mutex, proofs, keysetCounters, invoiceHistory, historyTokens,
                    isUnloading, meltState, mintSpent, calls >>

\* a failure path of meltQuote that also forgets the stored response
meltQuoteFailDropsResponse(p, err) ==
    /\ pc[p] = "meltQuote_wait"
    /\ payInvoiceData' = [ payInvoiceData EXCEPT !.meltQuote.error = err,
                                                 !.meltQuote.response = EmptyQuoteResponse,
                                                 !.blocking = FALSE ]
    /\ meltQuoteEnd(p, FALSE, "failed", err)
    /\ UNCHANGED << mutex, proofs, keysetCounters, invoiceHistory, historyTokens,
                    isUnloading, meltState, mintSpent, calls >>

\* createMeltQuote throws, or its answer is a mint error
meltQuoteFail(p, err) ==
    /\ pc[p] = "meltQuote_wait"
    /\ payInvoiceData' = [ payInvoiceData EXCEPT !.meltQuote.error = err,
                                                 !.blocking = FALSE ]
    /\ meltQuoteEnd(p, FALSE, "failed", err)
    /\ UNCHANGED << mutex, proofs, keysetCounters, invoiceHistory, historyTokens,
                    isUnloading, meltState, mintSpent, calls >>

\* mintStore.getMultiMints and multiMintBalance: the weights are in tenths
MultiMints == { [ overallBalance |-> 0, weights |-> << >> ],
                [ overallBalance |-> 1, weights |-> << 10 >> ],
                [ overallBalance |-> 10, weights |-> << 5, 5 >> ] }

\* partial amounts rounded each on its own, no error carried on
RECURSIVE partialAmountsNoCarry(_, _, _, _)
partialAmountsNoCarry(invoiceAmount, weights, i, carry) ==
    IF i > Len(weights) THEN << >>
    ELSE << (2 * invoiceAmount * weights[i] + 10) \div 20 >> \o
         partialAmountsNoCarry(invoiceAmount, weights, i + 1, 0)

\* partial amounts rounded down, the error carried on
RECURSIVE partialAmountsFloor(_, _, _, _)
partialAmountsFloor(invoiceAmount, weights, i, carry) ==
    IF i > Len(weights) THEN << >>
    ELSE LET partialAmountFloat == invoiceAmount * weights[i] + carry
             partialAmount == partialAmountFloat \div 10
         IN  << partialAmount >> \o
             partialAmountsFloor(invoiceAmount, weights, i + 1,
                                 partialAmountFloat - 10 * partialAmount)

\* the partial amounts: Math.round(invoiceAmount * weights[i] + carry), the
\* rounding error carried on; amounts and carry in tenths
RECURSIVE partialAmounts(_, _, _, _)
partialAmounts(invoiceAmount, weights, i, carry) ==
    IF i > Len(weights) THEN << >>
    ELSE LET partialAmountFloat == invoiceAmount * weights[i] + carry
             partialAmount == (2 * partialAmountFloat + 10) \div 20
         IN  << partialAmount >> \o
             partialAmounts(invoiceAmount, weights, i + 1,
                            partialAmountFloat - 10 * partialAmount)

\* one payload for every mint whose partial amount is positive
meltQuotePayloads(invoiceAmount, weights) ==
    LET parts == partialAmounts(invoiceAmount, weights, 1, 0)
        positive == SelectSeq([ i \in DOMAIN parts |-> [ mint |-> i, amount |-> parts[i] ] ],
                              LAMBDA x : x.amount > 0)
    IN  positive

\* why multiPathMeltQuotes throws before it asks any mint; "" when it does not
multiPathRejection(m) ==
    IF payInvoiceData.request = "" THEN "no invoice provided."
    ELSE IF Len(m.weights) = 0 THEN "no mint supports multi-part payments"
    ELSE IF payInvoiceData.invoice.null \/ payInvoiceData.invoice.sat = 0
         THEN "invoice does not have an amount"
    ELSE IF m.overallBalance < payInvoiceData.invoice.sat
         THEN "insufficient multi-mint balance"
    ELSE ""

\* multiPathMeltQuotes with the latch clear, up to its first request
multiPathEnter(p, m, o) ==
    LET payloads == meltQuotePayloads(payInvoiceData.invoice.sat, m.weights)
    IN  IF multiPathRejection(m) # ""
        THEN /\ payInvoiceData' = [ payInvoiceData EXCEPT
                                      !.blocking = FALSE,
                                      !.multiPartMeltQuotes.error = multiPathRejection(m) ]
             /\ Exit(p, [ NoRet EXCEPT !.op = o, !.path = "failed",
                            !.err = multiPathRejection(m) ])
        ELSE IF payloads = << >>
        THEN /\ payInvoiceData' = [ payInvoiceData EXCEPT
                                      !.blocking = FALSE,
                                      !.multiPartMeltQuotes =
                                          [ payloads |-> << >>, responses |-> << >>,
                                            error |-> "" ] ]
             /\ Exit(p, [ NoRet EXCEPT !.op = o, !.path = "ok" ])
        ELSE /\ payInvoiceData' = [ payInvoiceData EXCEPT
                                      !.blocking = TRUE,
                                      !.multiPartMeltQuotes.error = "",
                                      !.multiPartMeltQuotes.payloads = payloads ]
             /\ Start(p, o, "multiPath_wait",
                      [ NoLoc EXCEPT !.op = o, !.payloads = payloads,
                                     !.weights = m.weights ])

multiPathMeltQuotesReject(p) ==
    /\ Reject(p)
    /\ payInvoiceData.blocking
    /\ Exit(p, [ NoRet EXCEPT !.op = "multiPathMeltQuotes", !.path = "rejected",
                   !.err = AlreadyProcessing ])
    /\ UNCHANGED << mutex, proofs, keysetCounters, invoiceHistory, historyTokens,
                    payInvoiceData, isUnloading, meltState, mintSpent >>

\* multiPathMeltQuotes without the check of the latch
multiPathMeltQuotesCallUnlatched(p, m) ==
    /\ Call(p)
    /\ multiPathEnter(p, m, "multiPathMeltQuotes")
    /\ UNCHANGED << mutex, proofs, keysetCounters, invoiceHistory, historyTokens,
                    isUnloading, meltState, mintSpent >>

multiPathMeltQuotesCall(p, m) ==
    /\ Call(p)
    /\ ~payInvoiceData.blocking
    /\ multiPathEnter(p, m, "multiPathMeltQuotes")
    /\ UNCHANGED << mutex, proofs, keysetCounters, invoiceHistory, historyTokens,
                    isUnloading, meltState, mintSpent >>

\* a mint answers the next payload with quote r
multiPathResponse(p, r) ==
    /\ pc[p] = "multiPath_wait"
    /\ LET responses == Append(loc[p].responses, r)
       IN  IF Len(responses) = Len(loc[p].payloads)
           THEN /\ payInvoiceData' = [ payInvoiceData EXCEPT
                                         !.multiPartMeltQuotes.responses = responses,
                                         !.blocking = FALSE ]
                /\ Exit(p, [ NoRet EXCEPT !.op = loc[p].op, !.path = "ok" ])
           ELSE /\ Goto(p, "multiPath_wait", [ loc[p] EXCEPT !.responses = responses ])
                /\ UNCHANGED payInvoiceData
    /\ UNCHANGED << mutex, proofs, keysetCounters, invoiceHistory, historyTokens,
                    isUnloading, meltState, mintSpent, calls >>

\* a failure that stores the answers received so far
multiPathFailStoresPartial(p, err) ==
    /\ pc[p] = "multiPath_wait"
    /\ payInvoiceData' = [ payInvoiceData EXCEPT
                              !.multiPartMeltQuotes.error = err,
                              !.multiPartMeltQuotes.responses = loc[p].responses,
                              !.blocking = FALSE ]
    /\ Exit(p, [ NoRet EXCEPT !.op = loc[p].op, !.path = "failed", !.err = err ])
    /\ UNCHANGED << mutex, proofs, keysetCounters, invoiceHistory, historyTokens,
                    isUnloading, meltState, mintSpent, calls >>

\* a request throws, or its answer is a mint error
multiPathFail(p, err) ==
    /\ pc[p] = "multiPath_wait"
    /\ payInvoiceData' = [ payInvoiceData EXCEPT !.multiPartMeltQuotes.error = err,
                                                 !.blocking = FALSE ]
    /\ Exit(p, [ NoRet EXCEPT !.op = loc[p].op, !.path = "failed", !.err = err ])
    /\ UNCHANGED << mutex, proofs, keysetCounters, invoiceHistory, historyTokens,
                    isUnloading, meltState, mintSpent, calls >>

\* handleBolt11Invoice: decode the request, then meltQuote up to its request
handleBolt11Invoice(p) ==
    /\ Call(p)
    /\ IF payInvoiceData.request = ""
       THEN /\ Exit(p, [ NoRet EXCEPT !.op = "handleBolt11Invoice",
                           !.path = "decode_failed", !.err = "Not a proper lightning request" ])
            /\ UNCHANGED payInvoiceData
       ELSE IF payInvoiceData.blocking
       THEN /\ payInvoiceData' = [ payInvoiceData EXCEPT
                                     !.invoice = decode(payInvoiceData.request) ]
            /\ Exit(p, [ NoRet EXCEPT !.op = "handleBolt11Invoice",
                           !.path = "rejected", !.err = AlreadyProcessing ])
       ELSE /\ payInvoiceData' = [ payInvoiceData EXCEPT
                                     !.invoice = decode(payInvoiceData.request),
                                     !.blocking = TRUE,
                                     !.meltQuote.error = "" ]
            /\ Start(p, "handleBolt11Invoice", "meltQuote_wait",
                     [ NoLoc EXCEPT !.op = "handleBolt11Invoice" ])
    /\ UNCHANGED << mutex, proofs, keysetCounters, invoiceHistory, historyTokens,
                    isUnloading, meltState, mintSpent >>

\* handleBolt11Invoice goes on to multiPathMeltQuotes
handleBolt11InvoiceMultiPath(p, m) ==
    /\ pc[p] = "mpp_enter"
    /\ IF payInvoiceData.blocking
       THEN /\ Exit(p, [ NoRet EXCEPT !.op = "handleBolt11Invoice",
                           !.path = "rejected", !.err = AlreadyProcessing ])
            /\ UNCHANGED payInvoiceData
       ELSE multiPathEnter(p, m, "handleBolt11Invoice")
    /\ UNCHANGED << mutex, proofs, keysetCounters, invoiceHistory, historyTokens,
                    isUnloading, meltState, mintSpent, calls >>

\* the mints of a multi-path payment and the invoices paid over them
MaxMints == 3
MaxSat == 3
RECURSIVE SumSeq(_)
SumSeq(q) == IF q = << >> THEN 0 ELSE q[1] + SumSeq(Tail(q))
\* every split of the balance over up to MaxMints mints, in tenths
MppWeights ==
    { w \in UNION { [ 1..n -> 0..10 ] : n \in 1..MaxMints } : SumSeq(w) = 10 }
\* the example of an invoice of 333 sat over three mints
ThreeMints == [ overallBalance |-> 1000, weights |-> << 5, 3, 2 >> ]
MppMints == { [ overallBalance |-> MaxSat, weights |-> w ] : w \in MppWeights }
              \cup { ThreeMints }
MppSats == 1..MaxSat \cup { 333 }
\* a session whose decoded invoice has the amount sat
MppSession(sat) ==
    [ NewSession EXCEPT !.invoice = [ null |-> FALSE, sat |-> sat, bolt11 |-> "lnbc" ],
                        !.request = "lnbc" ]

InitMpp ==
    /\ pc = [ p \in Procs |-> "idle" ]
    /\ loc = [ p \in Procs |-> NoLoc ]
    /\ mutex = 0
    /\ proofs = InitProofs
    /\ keysetCounters \in { << >>, (KeysetId :> 1) }
    /\ invoiceHistory = << >>
    /\ historyTokens = << >>
    /\ payInvoiceData \in { MppSession(sat) : sat \in MppSats }
    /\ isUnloading = FALSE
    /\ meltState = [ q \in Quotes |-> [ state |-> "UNPAID", inputs |-> {} ] ]
    /\ mintSpent = {}
    /\ calls = 0
    /\ last = NoRet
    /\ mnemonic = 1
    /\ oldMnemonicCounters = << >>
    /\ subscriptions = << >>
    /\ workers = {}

(***************************************************************************)
(* newMnemonic                                                             *)
(***************************************************************************)
\* generateMnemonic: a phrase not generated before
generateMnemonic == mnemonic + 1

\* a rotation that archives the counters after clearing them
newMnemonicArchivesCleared ==
    /\ calls < MaxCalls
    /\ calls' = calls + 1
    /\ oldMnemonicCounters' =
         Append(oldMnemonicCounters, [ mnemonic |-> mnemonic, keysetCounters |-> << >> ])
    /\ keysetCounters' = << >>
    /\ mnemonic' = generateMnemonic
    /\ last' = [ NoRet EXCEPT !.op = "newMnemonic", !.path = "ok" ]
    /\ UNCHANGED << pc, loc, mutex, proofs, invoiceHistory, historyTokens,
                    payInvoiceData, isUnloading, meltState, mintSpent,
                    subscriptions, workers >>

\* newMnemonic: the mnemonic and its counters go to the archive, the counters
\* are cleared and a new mnemonic is generated; it waits for nothing
newMnemonic ==
    /\ calls < MaxCalls
    /\ calls' = calls + 1
    /\ oldMnemonicCounters' =
         Append(oldMnemonicCounters,
                [ mnemonic |-> mnemonic, keysetCounters |-> keysetCounters ])
    /\ keysetCounters' = << >>
    /\ mnemonic' = generateMnemonic
    /\ last' = [ NoRet EXCEPT !.op = "newMnemonic", !.path = "ok" ]
    /\ UNCHANGED << pc, loc, mutex, proofs, invoiceHistory, historyTokens,
                    payInvoiceData, isUnloading, meltState, mintSpent,
                    subscriptions, workers >>

(***************************************************************************)
(* requestMint and mint                                                    *)
(***************************************************************************)
\* the mint quotes the mint hands out, and the invoice of each
MintQuotes == { "m1" }
requestOf(quote) == "lnbcm1"
\* the states checkMintQuote may answer
MintQuoteStates == { "UNPAID", "PAID", "ISSUED" }
\* the amounts requestMint and mint are called with
MintAmounts == { 3 }

requestMintCall(p, amount) ==
    /\ Call(p)
    /\ Start(p, "requestMint", "requestMint_wait",
             [ NoLoc EXCEPT !.op = "requestMint", !.amount = amount ])
    /\ UNCHANGED << mutex, proofs, keysetCounters, invoiceHistory, historyTokens,
                    payInvoiceData, isUnloading, meltState, mintSpent >>

\* createMintQuote answers with a quote it has not handed out before: the
\* pending invoice goes to the history
requestMintOk(p, quote) ==
    /\ pc[p] = "requestMint_wait"
    /\ \A i \in DOMAIN invoiceHistory : invoiceHistory[i].quote # quote
    /\ invoiceHistory' = Append(invoiceHistory,
                                [ amount |-> loc[p].amount, bolt11 |-> requestOf(quote),
                                  quote |-> quote, status |-> "pending" ])
    /\ Exit(p, [ NoRet EXCEPT !.op = "requestMint", !.path = "ok", !.quote = quote ])
    /\ UNCHANGED << mutex, proofs, keysetCounters, historyTokens, payInvoiceData,
                    isUnloading, meltState, mintSpent, calls >>

requestMintFail(p, err) ==
    /\ pc[p] = "requestMint_wait"
    /\ Exit(p, [ NoRet EXCEPT !.op = "requestMint", !.path = "failed", !.err = err ])
    /\ UNCHANGED << mutex, proofs, keysetCounters, invoiceHistory, historyTokens,
                    payInvoiceData, isUnloading, meltState, mintSpent, calls >>

mintCall(p, amount, hash) ==
    /\ Call(p)
    /\ IF KeysetId = NoKeyset
       THEN Exit(p, [ NoRet EXCEPT !.op = "mint", !.path = "no_keyset",
                        !.err = "no active keysets found for unit" ])
       ELSE Start(p, "mint", "mint_lock",
                  [ NoLoc EXCEPT !.op = "mint", !.keysetId = KeysetId,
                                 !.amount = amount,
                                 !.quote = [ EmptyQuoteResponse EXCEPT !.quote = hash ] ])
    /\ UNCHANGED << mutex, proofs, keysetCounters, invoiceHistory, historyTokens,
                    payInvoiceData, isUnloading, meltState, mintSpent >>

\* the mutex is taken and checkMintQuote is asked
mintLock(p) ==
    /\ pc[p] = "mint_lock"
    /\ lockMutex(p)
    /\ Goto(p, "mint_check", loc[p])
    /\ UNCHANGED << proofs, keysetCounters, invoiceHistory, historyTokens,
                    payInvoiceData, isUnloading, meltState, mintSpent, calls >>

\* a check that reads the keyset counter before it looks at the quote's state
mintNotPaidReadsCounter(p, state) ==
    /\ pc[p] = "mint_check"
    /\ state # "PAID"
    /\ keysetCounters' = keysetCounterStore(keysetCounters, loc[p].keysetId)
    /\ unlockMutex
    /\ Exit(p, [ NoRet EXCEPT !.op = "mint", !.path = "not_paid",
                   !.err = "invoice not paid yet.", !.quote = loc[p].quote.quote ])
    /\ UNCHANGED << proofs, invoiceHistory, historyTokens, payInvoiceData,
                    isUnloading, meltState, mintSpent, calls >>

\* the quote is not PAID: "invoice not paid yet."
mintNotPaid(p, state) ==
    /\ pc[p] = "mint_check"
    /\ state # "PAID"
    /\ keysetCounters' =
         handleOutputsHaveAlreadyBeenSignedError(keysetCounters, loc[p].keysetId,
                                                 "invoice not paid yet.")
    /\ unlockMutex
    /\ Exit(p, [ NoRet EXCEPT !.op = "mint", !.path = "not_paid",
                   !.err = "invoice not paid yet.", !.quote = loc[p].quote.quote ])
    /\ UNCHANGED << proofs, invoiceHistory, historyTokens, payInvoiceData,
                    isUnloading, meltState, mintSpent, calls >>

\* checkMintQuote throws
mintCheckFail(p, err) ==
    /\ pc[p] = "mint_check"
    /\ keysetCounters' =
         handleOutputsHaveAlreadyBeenSignedError(keysetCounters, loc[p].keysetId, err)
    /\ unlockMutex
    /\ Exit(p, [ NoRet EXCEPT !.op = "mint", !.path = "check_failed", !.err = err,
                   !.quote = loc[p].quote.quote ])
    /\ UNCHANGED << proofs, invoiceHistory, historyTokens, payInvoiceData,
                    isUnloading, meltState, mintSpent, calls >>

\* the quote is PAID: read the counter and ask for the proofs
mintRequest(p) ==
    /\ pc[p] = "mint_check"
    /\ keysetCounters' = keysetCounterStore(keysetCounters, loc[p].keysetId)
    /\ Goto(p, "mint_wait",
            [ loc[p] EXCEPT !.counter = keysetCounter(keysetCounters, loc[p].keysetId) ])
    /\ UNCHANGED << mutex, proofs, invoiceHistory, historyTokens, payInvoiceData,
                    isUnloading, meltState, mintSpent, calls >>

\* mintProofs returns the proofs: bump the counter, store them, mark the invoice
mintOk(p) ==
    /\ pc[p] = "mint_wait"
    /\ LET amounts == splitAmount(loc[p].amount)
           fresh == LowestOf(Unused(proofs), Len(amounts))
       IN  /\ Len(fresh) = Len(amounts)
           /\ keysetCounters' = increaseKeysetCounter(keysetCounters, loc[p].keysetId,
                                                      Len(fresh))
           /\ proofs' = addProofs(proofs, fresh, amounts)
           /\ invoiceHistory' = setInvoicePaid(invoiceHistory, loc[p].quote.quote)
           /\ historyTokens' = Append(historyTokens,
                                      [ amount |-> loc[p].amount, status |-> "paid",
                                        token |-> Range(fresh) ])
           /\ Exit(p, [ NoRet EXCEPT !.op = "mint", !.path = "ok",
                          !.outputs = Range(fresh), !.quote = loc[p].quote.quote ])
    /\ unlockMutex
    /\ UNCHANGED << payInvoiceData, isUnloading, meltState, mintSpent, calls >>

\* mintProofs throws
mintFail(p, err) ==
    /\ pc[p] = "mint_wait"
    /\ keysetCounters' =
         handleOutputsHaveAlreadyBeenSignedError(keysetCounters, loc[p].keysetId, err)
    /\ unlockMutex
    /\ Exit(p, [ NoRet EXCEPT !.op = "mint", !.path = "failed", !.err = err,
                   !.quote = loc[p].quote.quote ])
    /\ UNCHANGED << proofs, invoiceHistory, historyTokens, payInvoiceData,
                    isUnloading, meltState, mintSpent, calls >>

(***************************************************************************)
(* redeem                                                                  *)
(***************************************************************************)
\* receiveData.tokensBase64: a token is the set of its proofs' secrets; {} is
\* the empty string, a negative secret a proof that is not the wallet's
ReceivedToken == { -1 }
tokenAmount(tok) == 2 * Cardinality(tok)
ReceiveTokens == { {}, ReceivedToken }

\* tokenStore.setTokenPaid
setTokenPaid(h, tok) ==
    [ i \in DOMAIN h |->
        IF h[i].token = tok /\ \A j \in 1..(i - 1) : h[j].token # tok
        THEN [ h[i] EXCEPT !.status = "paid" ] ELSE h[i] ]

\* no token to receive: "no tokens provided."
redeemReject(p, tok) ==
    /\ Reject(p)
    /\ tok = {}
    /\ Exit(p, [ NoRet EXCEPT !.op = "redeem", !.path = "rejected",
                   !.err = "no tokens provided." ])
    /\ UNCHANGED << mutex, proofs, keysetCounters, invoiceHistory, historyTokens,
                    payInvoiceData, isUnloading, meltState, mintSpent >>

\* the token decodes; its mint is being activated
redeemCall(p, tok) ==
    /\ Call(p)
    /\ tok # {}
    /\ Start(p, "redeem", "redeem_lock",
             [ NoLoc EXCEPT !.op = "redeem", !.proofsToSend = tok,
                            !.amount = tokenAmount(tok) ])
    /\ UNCHANGED << mutex, proofs, keysetCounters, invoiceHistory, historyTokens,
                    payInvoiceData, isUnloading, meltState, mintSpent >>

\* activateMintUrl throws before the mutex is asked for
redeemActivateFail(p, err) ==
    /\ pc[p] = "redeem_lock"
    /\ Exit(p, [ NoRet EXCEPT !.op = "redeem", !.path = "activate_failed",
                   !.err = err ])
    /\ UNCHANGED << mutex, proofs, keysetCounters, invoiceHistory, historyTokens,
                    payInvoiceData, isUnloading, meltState, mintSpent, calls >>

\* the mutex is taken; getKeyset, the counter is read, wallet.receive is asked
redeemLock(p) ==
    /\ pc[p] = "redeem_lock"
    /\ mutex = 0
    /\ IF KeysetId = NoKeyset
       THEN /\ Exit(p, [ NoRet EXCEPT !.op = "redeem", !.path = "no_keyset",
                           !.err = "no active keysets found for unit" ])
            /\ unlockMutex
            /\ UNCHANGED keysetCounters
       ELSE /\ mutex' = p
            /\ keysetCounters' = keysetCounterStore(keysetCounters, KeysetId)
            /\ Goto(p, "redeem_wait",
                    [ loc[p] EXCEPT !.keysetId = KeysetId,
                                    !.counter = keysetCounter(keysetCounters, KeysetId) ])
    /\ UNCHANGED << proofs, invoiceHistory, historyTokens, payInvoiceData,
                    isUnloading, meltState, mintSpent, calls >>

\* wallet.receive returns the swapped proofs
redeemOk(p) ==
    /\ pc[p] = "redeem_wait"
    /\ loc[p].proofsToSend \cap mintSpent = {}
    /\ loc[p].amount - getFeesForProofs(loc[p].proofsToSend) >= 0
    /\ LET tok == loc[p].proofsToSend
           outputAmount == loc[p].amount - getFeesForProofs(tok)
           amounts == splitAmount(outputAmount)
           fresh == LowestOf(Unused(proofs), Len(amounts))
           fee == loc[p].amount - outputAmount
           known(sign) == \E i \in DOMAIN historyTokens :
                              /\ historyTokens[i].token = tok
                              /\ sign * historyTokens[i].amount > 0
       IN  /\ Len(fresh) = Len(amounts)
           /\ keysetCounters' = increaseKeysetCounter(keysetCounters, loc[p].keysetId,
                                                      Len(fresh))
           /\ proofs' = addProofs(removeProofs(proofs, Range(fresh)), fresh, amounts)
           /\ historyTokens' =
                IF known(1) THEN setTokenPaid(historyTokens, tok)
                ELSE Append(IF known(-1) THEN setTokenPaid(historyTokens, tok)
                            ELSE historyTokens,
                            [ amount |-> outputAmount, status |-> "paid", token |-> tok ])
           /\ Exit(p, [ NoRet EXCEPT !.op = "redeem", !.path = "ok",
                          !.inputs = tok, !.outputs = Range(fresh) ])
    /\ mintSpent' = mintSpent \cup loc[p].proofsToSend
    /\ unlockMutex
    /\ UNCHANGED << invoiceHistory, payInvoiceData, isUnloading, meltState, calls >>

\* wallet.receive throws: "Error receiving tokens: ..."
redeemFail(p, err) ==
    /\ pc[p] = "redeem_wait"
    /\ keysetCounters' =
         handleOutputsHaveAlreadyBeenSignedError(keysetCounters, loc[p].keysetId, err)
    /\ unlockMutex
    /\ Exit(p, [ NoRet EXCEPT !.op = "redeem", !.path = "failed", !.err = err ])
    /\ UNCHANGED << proofs, invoiceHistory, historyTokens, payInvoiceData,
                    isUnloading, meltState, mintSpent, calls >>

(***************************************************************************)
(* sendToLock, checkProofsSpendable and checkOutgoingInvoice               *)
(***************************************************************************)
\* sendToLock(activeProofs, amount, receiverPubkey), up to wallet.send
sendToLockCall(p, amount) ==
    /\ Call(p)
    /\ IF BalanceTooLow(proofs, InStore(proofs), amount)
       THEN Exit(p, [ NoRet EXCEPT !.op = "sendToLock", !.path = "balance_too_low",
                        !.err = "Balance too low" ])
       ELSE \E proofsToSend \in coinSelect(proofs,
                                           spendableProofs(proofs, InStore(proofs)),
                                           amount, TRUE) :
              Start(p, "sendToLock", "sendToLock_wait",
                    [ NoLoc EXCEPT !.op = "sendToLock", !.amount = amount,
                                   !.proofsToSend = proofsToSend ])
    /\ UNCHANGED << mutex, proofs, keysetCounters, invoiceHistory, historyTokens,
                    payInvoiceData, isUnloading, meltState, mintSpent >>

\* wallet.send returns: the keep proofs are stored, the inputs removed; the
\* locked send proofs go to the caller only
sendToLockOk(p) ==
    /\ pc[p] = "sendToLock_wait"
    /\ loc[p].proofsToSend # {}
    /\ loc[p].proofsToSend \cap mintSpent = {}
    /\ LET keepAmounts == splitAmount(sumProofs(proofs, loc[p].proofsToSend)
                                      - loc[p].amount
                                      - getFeesForProofs(loc[p].proofsToSend))
           fresh == LowestOf(Unused(proofs), Len(keepAmounts))
       IN  /\ Len(fresh) = Len(keepAmounts)
           /\ proofs' = removeProofs(addProofs(proofs, fresh, keepAmounts),
                                     loc[p].proofsToSend)
           /\ Exit(p, [ NoRet EXCEPT !.op = "sendToLock", !.path = "ok",
                          !.inputs = loc[p].proofsToSend, !.outputs = Range(fresh) ])
    /\ mintSpent' = mintSpent \cup loc[p].proofsToSend
    /\ UNCHANGED << mutex, keysetCounters, invoiceHistory, historyTokens,
                    payInvoiceData, isUnloading, meltState, calls >>

sendToLockFail(p, err) ==
    /\ pc[p] = "sendToLock_wait"
    /\ Exit(p, [ NoRet EXCEPT !.op = "sendToLock", !.path = "failed", !.err = err ])
    /\ UNCHANGED << mutex, proofs, keysetCounters, invoiceHistory, historyTokens,
                    payInvoiceData, isUnloading, meltState, mintSpent, calls >>

\* the reserved proofs of the store
reservedProofs == { s \in InStore(proofs) : proofs[s].reserved }
\* the proofs of the tokens sent: reserved for no quote, stored or removed since
sentProofs ==
    { s \in Secrets : /\ proofs[s].st \in { "store", "gone" }
                      /\ proofs[s].reserved /\ proofs[s].quote = NoQuote }

\* the proofs that leave the store: those of the given ones the mint calls SPENT
checkedProofs(pf, spentProofs) == removeProofs(pf, spentProofs)
\* addPaidToken of the spent proofs, if there are any and update_history is set
checkedHistory(h, pf, spentProofs, update_history) ==
    IF spentProofs # {} /\ update_history
    THEN Append(h, [ amount |-> -sumProofs(pf, spentProofs),
                     status |-> "paid", token |-> spentProofs ])
    ELSE h

\* checkProofsSpendable(proofs, update_history), up to its request
checkProofsSpendableCall(p, given, update_history) ==
    /\ Call(p)
    /\ IF given = {}
       THEN Exit(p, [ NoRet EXCEPT !.op = "checkProofsSpendable",
                        !.path = "empty" ])
       ELSE Start(p, "checkProofsSpendable", "checkProofs_wait",
                  [ NoLoc EXCEPT !.op = "checkProofsSpendable",
                                 !.proofs = given,
                                 !.update_history = update_history ])
    /\ UNCHANGED << mutex, proofs, keysetCounters, invoiceHistory, historyTokens,
                    payInvoiceData, isUnloading, meltState, mintSpent >>

\* the mint names the spent proofs: they leave the store; checkOutgoingInvoice
\* then removes its proofs when all are spent and marks the invoice paid
checkProofsSpendableOk(p) ==
    /\ pc[p] = "checkProofs_wait"
    /\ LET spentProofs == loc[p].proofs \cap mintSpent
           removed == checkedProofs(proofs, spentProofs)
           outgoing == loc[p].op = "checkOutgoingInvoice"
       IN  /\ proofs' = IF outgoing /\ spentProofs = loc[p].proofs
                        THEN removeProofs(removed, loc[p].proofs) ELSE removed
           /\ historyTokens' = checkedHistory(historyTokens, proofs, spentProofs,
                                              loc[p].update_history)
           /\ invoiceHistory' = IF outgoing
                                THEN setInvoicePaid(invoiceHistory, loc[p].quote.quote)
                                ELSE invoiceHistory
           /\ Exit(p, [ NoRet EXCEPT !.op = loc[p].op, !.path = "ok",
                          !.inputs = loc[p].proofs, !.outputs = spentProofs,
                          !.quote = loc[p].quote.quote ])
    /\ UNCHANGED << mutex, keysetCounters, payInvoiceData, isUnloading, meltState,
                    mintSpent, calls >>

checkProofsSpendableFail(p, err) ==
    /\ pc[p] = "checkProofs_wait"
    /\ Exit(p, [ NoRet EXCEPT !.op = loc[p].op, !.path = "failed", !.err = err,
                   !.quote = loc[p].quote.quote ])
    /\ UNCHANGED << mutex, proofs, keysetCounters, invoiceHistory, historyTokens,
                    payInvoiceData, isUnloading, meltState, mintSpent, calls >>

(***************************************************************************)
(* checkTokenSpendable                                                     *)
(***************************************************************************)
\* the tokens checkTokenSpendable is called with; {} is a string that is no token
CheckedTokens == { {}, SentToken }
\* Math.sign
sign(n) == IF n > 0 THEN 1 ELSE IF n < 0 THEN -1 ELSE 0
\* the index of the first history entry of the token, 0 if there is none
historyIndex(h, tok) ==
    IF \E i \in DOMAIN h : h[i].token = tok
    THEN CHOOSE i \in DOMAIN h : h[i].token = tok /\ \A j \in 1..(i - 1) : h[j].token # tok
    ELSE 0
\* tokenStore.editHistoryToken(tok, {newAmount, newStatus, newToken}): the
\* entry keeps the sign of its amount
editHistoryToken(h, tok, newAmount, newStatus, newToken) ==
    IF historyIndex(h, tok) = 0 THEN h
    ELSE [ h EXCEPT ![historyIndex(h, tok)] =
             [ amount |-> newAmount * sign(@.amount), status |-> newStatus,
               token |-> newToken ] ]
\* tokenStore.addPendingToken
addPendingToken(h, amount, tok) ==
    Append(h, [ amount |-> amount, status |-> "pending", token |-> tok ])

\* a history whose new pending entry takes the unspent amount as it is
checkedTokenHistoryUnsigned(h, pf, tok, spentProofs) ==
    IF spentProofs = tok THEN setTokenPaid(h, tok)
    ELSE IF spentProofs # {}
    THEN LET unspentProofs == tok \ spentProofs
             edited == editHistoryToken(h, tok, sumProofs(pf, spentProofs), "paid",
                                        spentProofs)
         IN  IF historyIndex(h, tok) # 0
             THEN addPendingToken(edited, sumProofs(pf, unspentProofs), unspentProofs)
             ELSE edited
    ELSE h

\* the token history after checkProofsSpendable returned spentProofs: the
\* token paid, or split into a paid and a pending entry, or as it was
checkedTokenHistory(h, pf, tok, spentProofs) ==
    IF spentProofs = tok THEN setTokenPaid(h, tok)
    ELSE IF spentProofs # {}
    THEN LET unspentProofs == tok \ spentProofs
             edited == editHistoryToken(h, tok, sumProofs(pf, spentProofs), "paid",
                                        spentProofs)
             historyToken == edited[historyIndex(h, tok)]
         IN  IF historyIndex(h, tok) # 0
             THEN addPendingToken(edited,
                                  sumProofs(pf, unspentProofs) * sign(historyToken.amount),
                                  unspentProofs)
             ELSE edited
    ELSE h

\* the string decodes to no token: "no tokens provided."
checkTokenSpendableReject(p, tok) ==
    /\ Reject(p)
    /\ tok = {}
    /\ Exit(p, [ NoRet EXCEPT !.op = "checkTokenSpendable", !.path = "rejected",
                   !.err = "no tokens provided." ])
    /\ UNCHANGED << mutex, proofs, keysetCounters, invoiceHistory, historyTokens,
                    payInvoiceData, isUnloading, meltState, mintSpent >>

\* the token is decoded and the activation of its mint awaited
checkTokenSpendableCall(p, tok) ==
    /\ Call(p)
    /\ tok # {}
    /\ Start(p, "checkTokenSpendable", "checkToken_activate",
             [ NoLoc EXCEPT !.op = "checkTokenSpendable", !.proofs = tok ])
    /\ UNCHANGED << mutex, proofs, keysetCounters, invoiceHistory, historyTokens,
                    payInvoiceData, isUnloading, meltState, mintSpent >>

\* activateMintUrl throws
checkTokenActivateFail(p, err) ==
    /\ pc[p] = "checkToken_activate"
    /\ Exit(p, [ NoRet EXCEPT !.op = "checkTokenSpendable", !.path = "failed",
                   !.err = err, !.inputs = loc[p].proofs ])
    /\ UNCHANGED << mutex, proofs, keysetCounters, invoiceHistory, historyTokens,
                    payInvoiceData, isUnloading, meltState, mintSpent, calls >>

\* the mint is active: checkProofsSpendable(proofs) asks for the proofs' states
checkTokenRequest(p) ==
    /\ pc[p] = "checkToken_activate"
    /\ Goto(p, "checkToken_wait", loc[p])
    /\ UNCHANGED << mutex, proofs, keysetCounters, invoiceHistory, historyTokens,
                    payInvoiceData, isUnloading, meltState, mintSpent, calls >>

\* checkProofsSpendable returns the spent proofs, removed from the store: the
\* history is brought up to date; true is returned if a proof was spent
checkTokenSpendableOk(p) ==
    /\ pc[p] = "checkToken_wait"
    /\ LET spentProofs == loc[p].proofs \cap mintSpent
       IN  /\ proofs' = checkedProofs(proofs, spentProofs)
           /\ historyTokens' = checkedTokenHistory(historyTokens, proofs, loc[p].proofs,
                                                   spentProofs)
           /\ Exit(p, [ NoRet EXCEPT !.op = "checkTokenSpendable",
                          !.path = IF spentProofs # {} THEN "ok" ELSE "not_spent",
                          !.inputs = loc[p].proofs, !.outputs = spentProofs ])
    /\ UNCHANGED << mutex, keysetCounters, invoiceHistory, payInvoiceData, isUnloading,
                    meltState, mintSpent, calls >>

\* checkProofsStates throws: checkProofsSpendable throws it on
checkTokenSpendableFail(p, err) ==
    /\ pc[p] = "checkToken_wait"
    /\ Exit(p, [ NoRet EXCEPT !.op = "checkTokenSpendable", !.path = "failed",
                   !.err = err, !.inputs = loc[p].proofs ])
    /\ UNCHANGED << mutex, proofs, keysetCounters, invoiceHistory, historyTokens,
                    payInvoiceData, isUnloading, meltState, mintSpent, calls >>

(***************************************************************************)
(* checkOutgoingInvoice                                                    *)
(***************************************************************************)
\* the quote has no entry in the history: "invoice not found"
checkOutgoingInvoiceReject(p, quote) ==
    /\ Reject(p)
    /\ \A i \in DOMAIN invoiceHistory : invoiceHistory[i].quote # quote
    /\ Exit(p, [ NoRet EXCEPT !.op = "checkOutgoingInvoice", !.path = "rejected",
                   !.err = "invoice not found", !.quote = quote ])
    /\ UNCHANGED << mutex, proofs, keysetCounters, invoiceHistory, historyTokens,
                    payInvoiceData, isUnloading, meltState, mintSpent >>

\* the proofs bound to the quote are collected and the mint is asked
checkOutgoingInvoiceCall(p, quote) ==
    /\ Call(p)
    /\ \E i \in DOMAIN invoiceHistory : invoiceHistory[i].quote = quote
    /\ Start(p, "checkOutgoingInvoice", "checkOutgoing_wait",
             [ NoLoc EXCEPT !.op = "checkOutgoingInvoice",
                            !.quote = [ EmptyQuoteResponse EXCEPT !.quote = quote ],
                            !.proofs = { s \in InStore(proofs) : proofs[s].quote = quote },
                            !.update_history = TRUE ])
    /\ UNCHANGED << mutex, proofs, keysetCounters, invoiceHistory, historyTokens,
                    payInvoiceData, isUnloading, meltState, mintSpent >>

\* the quote is PENDING: "invoice not paid yet."
checkOutgoingInvoicePending(p) ==
    /\ pc[p] = "checkOutgoing_wait"
    /\ checkMeltQuote(loc[p].quote.quote) = "PENDING"
    /\ Exit(p, [ NoRet EXCEPT !.op = "checkOutgoingInvoice", !.path = "pending",
                   !.err = "invoice not paid yet.", !.quote = loc[p].quote.quote ])
    /\ UNCHANGED << mutex, proofs, keysetCounters, invoiceHistory, historyTokens,
                    payInvoiceData, isUnloading, meltState, mintSpent, calls >>

\* the quote is UNPAID: the proofs are released, the entry removed
checkOutgoingInvoiceUnpaid(p) ==
    /\ pc[p] = "checkOutgoing_wait"
    /\ checkMeltQuote(loc[p].quote.quote) = "UNPAID"
    /\ proofs' = setReserved(proofs, loc[p].proofs, FALSE, NoQuote)
    /\ invoiceHistory' = removeOutgoingInvoiceFromHistory(invoiceHistory,
                                                          loc[p].quote.quote)
    /\ Exit(p, [ NoRet EXCEPT !.op = "checkOutgoingInvoice", !.path = "unpaid",
                   !.inputs = loc[p].proofs, !.quote = loc[p].quote.quote ])
    /\ UNCHANGED << mutex, keysetCounters, historyTokens, payInvoiceData,
                    isUnloading, meltState, mintSpent, calls >>

\* the quote is PAID: checkProofsSpendable(proofs, true), which returns at once
\* when there are no proofs
checkOutgoingInvoicePaid(p) ==
    /\ pc[p] = "checkOutgoing_wait"
    /\ checkMeltQuote(loc[p].quote.quote) = "PAID"
    /\ IF loc[p].proofs = {}
       THEN /\ invoiceHistory' = setInvoicePaid(invoiceHistory, loc[p].quote.quote)
            /\ Exit(p, [ NoRet EXCEPT !.op = "checkOutgoingInvoice", !.path = "ok",
                           !.quote = loc[p].quote.quote ])
       ELSE /\ Goto(p, "checkProofs_wait", loc[p])
            /\ UNCHANGED invoiceHistory
    /\ UNCHANGED << mutex, proofs, keysetCounters, historyTokens, payInvoiceData,
                    isUnloading, meltState, mintSpent, calls >>

checkOutgoingInvoiceFail(p, err) ==
    /\ pc[p] = "checkOutgoing_wait"
    /\ Exit(p, [ NoRet EXCEPT !.op = "checkOutgoingInvoice", !.path = "failed",
                   !.err = err, !.quote = loc[p].quote.quote ])
    /\ UNCHANGED << mutex, proofs, keysetCounters, invoiceHistory, historyTokens,
                    payInvoiceData, isUnloading, meltState, mintSpent, calls >>

(***************************************************************************)
(* The environment: the mint's side of a melt, the page being closed       *)
(***************************************************************************)
\* the receiver of a sent token swaps one of its proofs at the mint
receiverSpends(s) ==
    /\ s \in sentProofs \ mintSpent
    /\ mintSpent' = mintSpent \cup { s }
    /\ UNCHANGED << pc, loc, last, mutex, proofs, keysetCounters, invoiceHistory,
                    historyTokens, payInvoiceData, isUnloading, meltState, calls,
                    mnemonic, oldMnemonicCounters, subscriptions, workers >>

\* the melt request of slot p reaches the mint, which starts the payment
mintAcceptsMelt(p) ==
    /\ pc[p] = "melt_wait"
    /\ loc[p].req = "sent"
    /\ loc[p].quote.quote \in Quotes
    /\ meltState[loc[p].quote.quote].state = "UNPAID"
    /\ loc[p].sendProofs \cap mintSpent = {}
    /\ meltState' = [ meltState EXCEPT ![loc[p].quote.quote] =
                        [ state |-> "PENDING", inputs |-> loc[p].sendProofs ] ]
    /\ loc' = [ loc EXCEPT ![p].req = "accepted" ]
    /\ UNCHANGED << pc, last, mutex, proofs, keysetCounters, invoiceHistory,
                    historyTokens, payInvoiceData, isUnloading, mintSpent, calls,
                    mnemonic, oldMnemonicCounters, subscriptions, workers >>

\* the Lightning payment of a pending quote succeeds: its inputs are spent
mintSettles(q) ==
    /\ meltState[q].state = "PENDING"
    /\ meltState' = [ meltState EXCEPT ![q].state = "PAID" ]
    /\ mintSpent' = mintSpent \cup meltState[q].inputs
    /\ UNCHANGED << pc, loc, last, mutex, proofs, keysetCounters, invoiceHistory,
                    historyTokens, payInvoiceData, isUnloading, calls,
                    mnemonic, oldMnemonicCounters, subscriptions, workers >>

\* the Lightning payment of a pending quote fails: the quote is UNPAID again
mintPaymentFails(q) ==
    /\ meltState[q].state = "PENDING"
    /\ meltState' = [ meltState EXCEPT ![q] = [ state |-> "UNPAID", inputs |-> {} ] ]
    /\ loc' = [ p \in Procs |->
                  IF pc[p] = "melt_wait" /\ loc[p].req = "accepted"
                     /\ loc[p].quote.quote = q
                  THEN [ loc[p] EXCEPT !.req = "failed" ] ELSE loc[p] ]
    /\ UNCHANGED << pc, last, mutex, proofs, keysetCounters, invoiceHistory,
                    historyTokens, payInvoiceData, isUnloading, mintSpent, calls,
                    mnemonic, oldMnemonicCounters, subscriptions, workers >>

\* window's beforeunload event
beforeunload ==
    /\ ~isUnloading
    /\ isUnloading' = TRUE
    /\ UNCHANGED << pc, loc, last, mutex, proofs, keysetCounters, invoiceHistory,
                    historyTokens, payInvoiceData, meltState, mintSpent, calls,
                    mnemonic, oldMnemonicCounters, subscriptions, workers >>

(***************************************************************************)
(* Specification                                                           *)
(***************************************************************************)
\* the arguments of the calls of send: amount, invalidate, includeFees
SendToLockAmounts == { 1 }
SendArgs == { << 1, FALSE, FALSE >>, << 3, TRUE, FALSE >>, << 3, FALSE, TRUE >>,
              << 8, FALSE, FALSE >> }

\* the steps of send
SendNext ==
    \/ \E p \in Procs, a \in SendArgs : sendCall(p, a[1], a[2], a[3])
    \/ \E p \in Procs : sendLock(p)
    \/ \E p \in Procs : sendBalanceTooLow(p)
    \/ \E p \in Procs : sendNoSplit(p)
    \/ \E p \in Procs : sendSplitRequest(p)
    \/ \E p \in Procs : sendSplitOk(p)
    \/ \E p \in Procs, e \in MintErrors : sendSplitFail(p, e)

\* the steps of melt after its send, and the mint's side of a melt
MeltNext ==
    \/ \E p \in Procs : meltCall(p)
    \/ \E p \in Procs : meltLock(p)
    \/ \E p \in Procs : meltRequest(p)
    \/ \E p \in Procs, c \in 0..3 : meltOk(p, c)
    \/ \E p \in Procs : meltNotPaid(p)
    \/ \E p \in Procs, e \in MintErrors : meltThrow(p, e)
    \/ \E p \in Procs : meltRequeryKeep(p)
    \/ \E p \in Procs : meltRollback(p)
    \/ \E p \in Procs : meltRequeryThrows(p)
    \/ \E p \in Procs : mintAcceptsMelt(p)
    \/ \E q \in Quotes : mintSettles(q)
    \/ \E q \in Quotes : mintPaymentFails(q)

\* the melt quotes of the pay-invoice session, and melt's entry checks
QuoteNext ==
    \/ \E p \in Procs : meltReject(p)
    \/ \E p \in Procs : meltQuoteReject(p)
    \/ \E p \in Procs : meltQuoteCall(p)
    \/ \E p \in Procs, r \in MeltQuoteResponses : meltQuoteOk(p, r)
    \/ \E p \in Procs : meltQuoteFail(p, NetworkError)
    \/ \E p \in Procs : multiPathMeltQuotesReject(p)
    \/ \E p \in Procs, m \in MultiMints : multiPathMeltQuotesCall(p, m)
    \/ \E p \in Procs, r \in MeltQuoteResponses : multiPathResponse(p, r)
    \/ \E p \in Procs : multiPathFail(p, NetworkError)
    \/ \E p \in Procs : handleBolt11Invoice(p)
    \/ \E p \in Procs, m \in MultiMints : handleBolt11InvoiceMultiPath(p, m)

\* the steps of requestMint and mint
MintNext ==
    \/ \E p \in Procs, a \in MintAmounts : requestMintCall(p, a)
    \/ \E p \in Procs, q \in MintQuotes : requestMintOk(p, q)
    \/ \E p \in Procs : requestMintFail(p, NetworkError)
    \/ \E p \in Procs, a \in MintAmounts, q \in MintQuotes : mintCall(p, a, q)
    \/ \E p \in Procs : mintLock(p)
    \/ \E p \in Procs, st \in MintQuoteStates : mintNotPaid(p, st)
    \/ \E p \in Procs : mintCheckFail(p, NetworkError)
    \/ \E p \in Procs : mintRequest(p)
    \/ \E p \in Procs : mintOk(p)
    \/ \E p \in Procs, e \in MintErrors : mintFail(p, e)

\* the steps of redeem
RedeemNext ==
    \/ \E p \in Procs, t \in ReceiveTokens : redeemReject(p, t)
    \/ \E p \in Procs, t \in ReceiveTokens : redeemCall(p, t)
    \/ \E p \in Procs : redeemActivateFail(p, NetworkError)
    \/ \E p \in Procs : redeemLock(p)
    \/ \E p \in Procs : redeemOk(p)
    \/ \E p \in Procs, e \in MintErrors : redeemFail(p, e)

\* the operations that work on the proof store without the mutex
StoreNext ==
    \/ \E p \in Procs, a \in SendToLockAmounts : sendToLockCall(p, a)
    \/ \E p \in Procs : sendToLockOk(p)
    \/ \E p \in Procs : sendToLockFail(p, NetworkError)
    \/ \E p \in Procs, u \in BOOLEAN : checkProofsSpendableCall(p, reservedProofs, u)
    \/ \E p \in Procs : checkProofsSpendableOk(p)
    \/ \E p \in Procs : checkProofsSpendableFail(p, NetworkError)
    \/ \E p \in Procs, q \in Quotes : checkOutgoingInvoiceReject(p, q)
    \/ \E p \in Procs, q \in Quotes : checkOutgoingInvoiceCall(p, q)
    \/ \E p \in Procs : checkOutgoingInvoicePending(p)
    \/ \E p \in Procs : checkOutgoingInvoiceUnpaid(p)
    \/ \E p \in Procs : checkOutgoingInvoicePaid(p)
    \/ \E p \in Procs : checkOutgoingInvoiceFail(p, NetworkError)

Next ==
    \/ SendNext \/ MeltNext \/ QuoteNext \/ MintNext \/ RedeemNext \/ StoreNext
    \/ beforeunload

\* every operation of the wallet
Spec == Init /\ [][Next]_vars

\* the operations that take the engine mutex
EngineNext == SendNext \/ MeltNext \/ MintNext \/ RedeemNext \/ beforeunload
SpecEngine == Init /\ [][EngineNext]_vars

\* the operations that spend proofs, and the unload they may meet
SpendNext == SendNext \/ MeltNext \/ beforeunload
SpecSpend == Init /\ [][SpendNext]_vars

\* paying an invoice while the app stays loaded: its quotes, then melt
PayNext == SendNext \/ MeltNext \/ QuoteNext
SpecPay == Init /\ [][PayNext]_vars

\* multiPathMeltQuotes over every split of the balance
MppNext ==
    \/ \E p \in Procs : multiPathMeltQuotesReject(p)
    \/ \E p \in Procs, m \in MppMints : multiPathMeltQuotesCall(p, m)
    \/ \E p \in Procs : multiPathResponse(p, RefundQuote)
    \/ \E p \in Procs : multiPathFail(p, NetworkError)
SpecMpp == InitMpp /\ [][MppNext]_vars

\* checkOutgoingInvoice, with the checkProofsSpendable it runs for a paid quote
OutgoingNext ==
    \/ \E p \in Procs, q \in Quotes : checkOutgoingInvoiceReject(p, q)
    \/ \E p \in Procs, q \in Quotes : checkOutgoingInvoiceCall(p, q)
    \/ \E p \in Procs : checkOutgoingInvoicePending(p)
    \/ \E p \in Procs : checkOutgoingInvoiceUnpaid(p)
    \/ \E p \in Procs : checkOutgoingInvoicePaid(p)
    \/ \E p \in Procs : checkOutgoingInvoiceFail(p, NetworkError)
    \/ \E p \in Procs : checkProofsSpendableOk(p)
    \/ \E p \in Procs : checkProofsSpendableFail(p, NetworkError)
\* melts and the polling of their quotes
SpecOutgoing == Init /\ [][SendNext \/ MeltNext \/ OutgoingNext]_vars

\* checkProofsSpendable on the proofs of the tokens sent
ReconcileNext ==
    \/ \E p \in Procs, u \in BOOLEAN : checkProofsSpendableCall(p, sentProofs, u)
    \/ \E p \in Procs : checkProofsSpendableOk(p)
    \/ \E p \in Procs : checkProofsSpendableFail(p, NetworkError)
    \/ \E s \in Secrets : receiverSpends(s)
\* a sent token is spent by its receiver and checked
SpecReconcile == InitSent /\ [][ReconcileNext]_vars

\* checkTokenSpendable on a sent token, and the receiver spending its proofs
TokenNext ==
    \/ \E p \in Procs, t \in CheckedTokens : checkTokenSpendableReject(p, t)
    \/ \E p \in Procs, t \in CheckedTokens : checkTokenSpendableCall(p, t)
    \/ \E p \in Procs : checkTokenActivateFail(p, NetworkError)
    \/ \E p \in Procs : checkTokenRequest(p)
    \/ \E p \in Procs : checkTokenSpendableOk(p)
    \/ \E p \in Procs : checkTokenSpendableFail(p, NetworkError)
    \/ \E s \in Secrets : receiverSpends(s)
SpecToken == InitSent /\ [][TokenNext]_vars

\* the operations that take the mutex, and rotations of the mnemonic
SeedNext == EngineNext \/ newMnemonic
SpecSeed == Init /\ [][SeedNext]_vars
\* sends and melts, and rotations of the mnemonic
RotateNext == SendNext \/ MeltNext \/ newMnemonic
SpecRotate == Init /\ [][RotateNext]_vars

\* melt and its send, for every quote the session may hold
MeltingNext == SendNext \/ MeltNext
SpecMelt == InitMelt /\ [][MeltingNext]_vars

\* send on its own, one call after or beside another
SpecSend == Init /\ [][SendNext]_vars

\* requesting a mint quote and minting it
SpecMint == Init /\ [][MintNext]_vars

\* the operations behind the blocking latch
SpecQuote == Init /\ [][QuoteNext]_vars

(***************************************************************************)
(* Properties                                                              *)
(***************************************************************************)
\* the labels at which a slot holds the engine mutex
Critical == { "send_cs", "send_wait", "melt_cs", "melt_wait", "melt_requery",
              "mint_check", "mint_wait", "redeem_wait" }
counterOf(kc) == IF KeysetId \in DOMAIN kc THEN kc[KeysetId] ELSE 0
entriesOf(h, quote) == { i \in DOMAIN h : h[i].quote = quote }
reservedUnder(pf, quote) == { s \in InStore(pf) : pf[s].reserved /\ pf[s].quote = quote }

\* C1: mint, send, redeem and melt hold the engine mutex exactly between their
\* lockMutex and the exit that follows it, whatever the exit path: the mutex is
\* held iff its holder is inside its critical section, so an operation that
\* ends (or fails before locking) leaves it free or with its holder, and it is
\* free whenever no operation is in progress.
MutexReleasedOnEveryExit ==
    /\ \A p \in Procs : pc[p] \in Critical => mutex = p
    /\ mutex # 0 => mutex \in Procs /\ pc[mutex] \in Critical
    /\ (\A p \in Procs : pc[p] = "idle") => mutex = 0
\* a melt whose re-query failed has returned and the mutex is free
MutexReleasedWitness ==
    /\ last.op = "melt" /\ last.path = "requery_failed"
    /\ \A p \in Procs : pc[p] = "idle"
    /\ mutex = 0

\* C2: when melt returns successfully for quote q, none of its input proofs is
\* in the store, every change proof is in the store, and the history holds
\* exactly one entry with quote q, which is paid.
MeltSuccessPostcondition ==
    [][ \A p \in Procs :
          (pc[p] = "melt_wait" /\ pc'[p] = "idle" /\ last'.path = "ok") =>
             /\ last'.inputs \cap InStore(proofs') = {}
             /\ last'.outputs \subseteq InStore(proofs')
             /\ Cardinality(entriesOf(invoiceHistory', last'.quote)) = 1
             /\ \A i \in entriesOf(invoiceHistory', last'.quote) :
                    invoiceHistory'[i].status = "paid" ]_vars

\* C3: when melt fails and the re-queried quote is UNPAID, after the rollback
\* the counter is what it was before melt bumped it, no proof is reserved under
\* the quote, and the history has no entry for the quote.
MeltRollbackRestores ==
    [][ \A p \in Procs :
          (pc[p] = "melt_requery" /\ pc'[p] = "idle" /\ last'.path = "rollback") =>
             /\ counterOf(keysetCounters') = loc[p].counter
             /\ reservedUnder(proofs', loc[p].quote.quote) = {}
             /\ entriesOf(invoiceHistory', loc[p].quote.quote) = {} ]_vars

\* C4: when melt fails and the re-queried quote is PAID or PENDING, melt leaves
\* without rolling back: the proof store, the history and the counters are as
\* they were (the counter still carries the whole bump), and the error that
\* made melt fail is the one thrown.
MeltKeepsOnPaidOrPending ==
    [][ \A p \in Procs :
          (/\ pc[p] = "melt_requery" /\ pc'[p] = "idle"
           /\ checkMeltQuote(loc[p].quote.quote) \in { "PAID", "PENDING" }
           /\ last'.path # "requery_failed") =>
             /\ last'.path = "keep"
             /\ proofs' = proofs
             /\ invoiceHistory' = invoiceHistory
             /\ keysetCounters' = keysetCounters
             /\ counterOf(keysetCounters') =
                  loc[p].counter + Cardinality(loc[p].sendProofs) + loc[p].inc
             /\ last'.err = loc[p].err ]_vars
\* a melt that failed has returned with its proofs still reserved for the quote
\* and its pending entry in the history
MeltKeepsWitness ==
    /\ last.op = "melt" /\ last.path = "keep"
    /\ last.inputs # {}
    /\ last.inputs \subseteq reservedUnder(proofs, last.quote)
    /\ \E i \in entriesOf(invoiceHistory, last.quote) :
           invoiceHistory[i].status = "pending"

\* C5: when the app is unloading and melt's request to the mint fails, melt
\* throws at once: no re-query, the proof store and the history as they were,
\* the counter with its whole bump.
MeltUnloadingRethrows ==
    [][ \A p \in Procs :
          (/\ pc[p] = "melt_wait" /\ pc'[p] # "melt_wait"
           /\ isUnloading
           /\ ~(pc'[p] = "idle" /\ last'.path = "ok")) =>
             /\ pc'[p] = "idle"
             /\ last'.op = "melt" /\ last'.path = "unloading" /\ last'.err # ""
             /\ proofs' = proofs
             /\ invoiceHistory' = invoiceHistory
             /\ meltState' = meltState
             /\ counterOf(keysetCounters') =
                  loc[p].counter + Cardinality(loc[p].sendProofs) + loc[p].inc ]_vars
\* a melt has thrown while unloading: its proofs are reserved for the quote and
\* its pending entry is in the history
MeltUnloadingWitness ==
    /\ isUnloading
    /\ last.op = "melt" /\ last.path = "unloading"
    /\ last.inputs # {}
    /\ last.inputs \subseteq reservedUnder(proofs, last.quote)
    /\ \E i \in entriesOf(invoiceHistory, last.quote) :
           invoiceHistory[i].status = "pending"

\* the session's invoice is in the history, paid, with a negative amount
alreadyPaid ==
    \E i \in DOMAIN invoiceHistory :
        /\ invoiceHistory[i].bolt11 = payInvoiceData.invoice.bolt11
        /\ invoiceHistory[i].amount < 0
        /\ invoiceHistory[i].status = "paid"
\* slot p enters melt in this step
meltEntered(p) ==
    /\ pc[p] = "idle"
    /\ last' # last
    /\ last'.slot = p /\ last'.op = "melt"

\* C6: melt called with the latch set, or for an invoice the history holds as
\* paid with a negative amount, throws at entry: proofs, counters, history and
\* mutex are untouched, nothing is selected and nothing is sent to the mint.
MeltRejectsAtEntry ==
    [][ \A p \in Procs :
          (meltEntered(p) /\ (payInvoiceData.blocking \/ alreadyPaid)) =>
             /\ last'.path = "rejected"
             /\ pc' = pc /\ loc' = loc
             /\ mutex' = mutex
             /\ proofs' = proofs
             /\ keysetCounters' = keysetCounters
             /\ invoiceHistory' = invoiceHistory
             /\ meltState' = meltState ]_vars
\* melt was rejected for an invoice that is already paid
MeltRejectsWitness ==
    /\ last.op = "melt" /\ last.path = "rejected"
    /\ last.err = "invoice already paid."
    /\ alreadyPaid

\* slot p enters meltQuote in this step
meltQuoteEntered(p) ==
    /\ pc[p] = "idle"
    /\ last' # last
    /\ last'.slot = p /\ last'.op = "meltQuote"

\* C7: meltQuote called with the latch set throws without a request and
\* without touching the session; otherwise it sets the latch, the latch is set
\* while its request is in flight, and it is clear when meltQuote ends: with
\* the response stored on success, with the error stored and the response as
\* it was on failure.
MeltQuoteLatch ==
    [][ \A p \in Procs :
          /\ (meltQuoteEntered(p) /\ payInvoiceData.blocking) =>
                /\ last'.path = "rejected"
                /\ pc' = pc
                /\ payInvoiceData' = payInvoiceData
          /\ (meltQuoteEntered(p) /\ ~payInvoiceData.blocking
                /\ payInvoiceData.request # "") =>
                /\ pc'[p] = "meltQuote_wait"
                /\ payInvoiceData'.blocking
          /\ pc'[p] = "meltQuote_wait" => payInvoiceData'.blocking
          /\ (meltQuoteEntered(p) /\ pc'[p] = "idle" /\ last'.path # "rejected") =>
                /\ ~payInvoiceData'.blocking
                /\ payInvoiceData'.meltQuote.error = last'.err
                /\ payInvoiceData'.meltQuote.response =
                     payInvoiceData.meltQuote.response
          /\ (pc[p] = "meltQuote_wait" /\ pc'[p] # "meltQuote_wait") =>
                /\ ~payInvoiceData'.blocking
                /\ IF pc'[p] = "idle" /\ last'.path = "failed"
                   THEN /\ payInvoiceData'.meltQuote.error = last'.err
                        /\ last'.err # ""
                        /\ payInvoiceData'.meltQuote.response =
                             payInvoiceData.meltQuote.response
                   ELSE /\ payInvoiceData'.meltQuote.response \in MeltQuoteResponses
                        /\ payInvoiceData'.meltQuote.error = "" ]_vars
\* meltQuote has failed: the error is on the session next to the response of
\* an earlier call
MeltQuoteLatchWitness ==
    /\ last.op = "meltQuote" /\ last.path = "failed"
    /\ payInvoiceData.meltQuote.error = NetworkError
    /\ payInvoiceData.meltQuote.response \in MeltQuoteResponses
    /\ ~payInvoiceData.blocking

\* the slots with a melt-quote request in flight
quoting == { p \in Procs : pc[p] \in { "meltQuote_wait", "multiPath_wait" } }

\* C8: at most one of the calls of meltQuote and multiPathMeltQuotes has a
\* request in flight, and a call rejected for the latch leaves the latch set.
OneMeltQuoteInFlight ==
    [][ /\ Cardinality(quoting') <= 1
        /\ quoting' # {} => payInvoiceData'.blocking
        /\ (/\ last' # last
            /\ last'.op \in { "meltQuote", "multiPathMeltQuotes" }
            /\ last'.path = "rejected") =>
               /\ payInvoiceData.blocking
               /\ payInvoiceData' = payInvoiceData
               /\ quoting' = quoting ]_vars
\* a call was rejected while another has its request in flight
OneMeltQuoteWitness ==
    /\ quoting # {}
    /\ payInvoiceData.blocking
    /\ last.op \in { "meltQuote", "multiPathMeltQuotes" }
    /\ last.path = "rejected"

\* C9: every step that changes the proof store is a step of the operation
\* that holds the engine mutex.
ProofStoreMutatedUnderMutex ==
    [][ proofs' # proofs =>
          /\ mutex \in Procs
          /\ pc'[mutex] # pc[mutex] \/ loc'[mutex] # loc[mutex] ]_vars

\* C10: no step of a mint, send or melt that succeeds lowers a keyset counter
\* or drops it: the only step that lowers one is the rollback of a failed melt.
CounterNonDecreasing ==
    [][ \/ last'.path = "rollback" /\ last' # last
        \/ \A id \in DOMAIN keysetCounters :
              /\ id \in DOMAIN keysetCounters'
              /\ keysetCounters'[id] >= keysetCounters[id] ]_vars
\* a melt has succeeded with the counter above its first value
CounterWitness ==
    /\ last.op = "melt" /\ last.path = "ok"
    /\ counterOf(keysetCounters) > 1

\* the operations that take the engine mutex
EngineOps == { "mint", "send", "redeem", "melt" }

\* C11: when mint, send, redeem or melt ends with the mint's error "outputs
\* have already been signed", the counter of the keyset it used is exactly 10
\* above the value the operation read from it, and the counter of every other
\* keyset is as it was.
OutputsSignedJumpsTen ==
    [][ \A p \in Procs :
          (/\ pc[p] # "idle" /\ pc'[p] = "idle"
           /\ last'.op \in EngineOps
           /\ last'.err = OutputsSigned) =>
             /\ counterOf(keysetCounters') = loc[p].counter + 10
             /\ \A id \in DOMAIN keysetCounters \ { loc[p].keysetId } :
                    /\ id \in DOMAIN keysetCounters'
                    /\ keysetCounters'[id] = keysetCounters[id] ]_vars

\* C12: the invoice history never holds two entries with the same quote id,
\* whatever requestMint, melt, its rollback and checkOutgoingInvoice do and
\* however their steps interleave.
HistoryOneEntryPerQuote ==
    \A i, j \in DOMAIN invoiceHistory :
        invoiceHistory[i].quote = invoiceHistory[j].quote => i = j

\* C13: a mint whose quote the mint reports as not PAID ends with "invoice not
\* paid yet." and leaves the wallet as it was: the proof store, the keyset
\* counters (none is created), the invoice history and the token history are
\* unchanged, and the mutex is free again.
MintNotPaidChangesNothing ==
    [][ \A p \in Procs :
          (/\ pc[p] = "mint_check" /\ pc'[p] = "idle"
           /\ last'.path = "not_paid") =>
             /\ last'.op = "mint" /\ last'.err = "invoice not paid yet."
             /\ proofs' = proofs
             /\ keysetCounters' = keysetCounters
             /\ invoiceHistory' = invoiceHistory
             /\ historyTokens' = historyTokens
             /\ mutex' = 0 ]_vars
\* a mint of a requested quote has failed as not paid: its entry is pending and
\* the wallet still has no counter
MintNotPaidWitness ==
    /\ last.op = "mint" /\ last.path = "not_paid"
    /\ \E i \in entriesOf(invoiceHistory, last.quote) :
           invoiceHistory[i].status = "pending"
    /\ keysetCounters = << >>
    /\ InStore(proofs) = InStore(InitProofs)

\* C14: when mint succeeds for quote q with n proofs, the counter is n above
\* the value mint read, the n proofs are new in the store, unreserved and sum
\* to the amount, every history entry of q is paid and the rest of the history
\* is as it was, and one paid entry with the minted amount is appended to the
\* token history.
MintSuccessPostcondition ==
    [][ \A p \in Procs :
          (/\ pc[p] = "mint_wait" /\ pc'[p] = "idle"
           /\ last'.path = "ok") =>
             LET minted == last'.outputs
                 q == loc[p].quote.quote
             IN  /\ minted # {}
                 /\ counterOf(keysetCounters') = loc[p].counter + Cardinality(minted)
                 /\ minted \cap InStore(proofs) = {}
                 /\ InStore(proofs') = InStore(proofs) \cup minted
                 /\ \A s \in minted : ~proofs'[s].reserved
                 /\ sumProofs(proofs', minted) = loc[p].amount
                 /\ Len(invoiceHistory') = Len(invoiceHistory)
                 /\ \A i \in DOMAIN invoiceHistory :
                        IF invoiceHistory[i].quote = q
                        THEN invoiceHistory'[i] =
                               [ invoiceHistory[i] EXCEPT !.status = "paid" ]
                        ELSE invoiceHistory'[i] = invoiceHistory[i]
                 /\ historyTokens' =
                      Append(historyTokens, [ amount |-> loc[p].amount,
                                              status |-> "paid",
                                              token |-> minted ]) ]_vars
\* a requested quote has been minted: its entry is paid and its proofs stored
MintSuccessWitness ==
    /\ last.op = "mint" /\ last.path = "ok"
    /\ last.outputs # {} /\ last.outputs \subseteq InStore(proofs)
    /\ \E i \in entriesOf(invoiceHistory, last.quote) :
           invoiceHistory[i].status = "paid"
    /\ Len(historyTokens) = 1

\* the labels of send
SendLabels == { "send_lock", "send_cs", "send_wait" }

\* C15: a send that fails (balance too low, the mint's send throws, outputs
\* already signed) changes no proof: none of its steps up to the failure
\* touches the proof store, and the failing step leaves the proofs, their
\* reserved flags, the histories and the session as they were; only the keyset
\* counter may differ.
SendFailureKeepsProofs ==
    [][ \A p \in Procs :
          /\ (/\ loc[p].op = "send" /\ pc[p] \in SendLabels
              /\ pc'[p] \in SendLabels /\ pc'[p] # pc[p]) => proofs' = proofs
          /\ (/\ loc[p].op = "send" /\ pc[p] \in SendLabels
              /\ pc'[p] = "idle" /\ last'.err # "") =>
                /\ last'.op = "send"
                /\ proofs' = proofs
                /\ invoiceHistory' = invoiceHistory
                /\ historyTokens' = historyTokens
                /\ payInvoiceData' = payInvoiceData ]_vars
\* a send has failed with "outputs have already been signed": the counter has
\* jumped and the three proofs are in the store, none reserved
SendFailureWitness ==
    /\ last.op = "send" /\ last.path = "split_failed" /\ last.err = OutputsSigned
    /\ counterOf(keysetCounters) >= 11
    /\ proofs = InitProofs

\* slot p's send returns from a split in this step
sendSplitReturns(p) ==
    /\ loc[p].op = "send"
    /\ pc[p] = "send_wait" /\ pc'[p] = "idle"
    /\ last'.path = "split"
\* what every successful split does: the counter is |keep| + |send| above the
\* value send read, the keep and send proofs are new, the candidates leave the
\* store, the send proofs sum to the target, and keep and send together are
\* the candidates less the input fees of the swap
splitAccounts(p) ==
    LET keep == last'.outputs
        send == last'.inputs
        candidates == loc[p].proofsToSend
    IN  /\ send # {}
        /\ keep \cap send = {}
        /\ (keep \cup send) \cap InStore(proofs) = {}
        /\ counterOf(keysetCounters') =
             loc[p].counter + Cardinality(keep) + Cardinality(send)
        /\ candidates \cap InStore(proofs') = {}
        /\ keep \subseteq InStore(proofs')
        /\ \A s \in keep : ~proofs'[s].reserved
        /\ sumProofs(proofs', send) = loc[p].target
        /\ sumProofs(proofs', keep) + sumProofs(proofs', send) =
             sumProofs(proofs, candidates) - getFeesForProofs(candidates)

\* C16 (as stated): after a successful split the store holds the keep proofs
\* and the send proofs and none of the candidates, the counter is up by
\* |keep| + |send|, the amounts account for the candidates, and of the proofs
\* returned exactly the send proofs are reserved.
SendSplitStoresKeepAndSend ==
    [][ \A p \in Procs :
          sendSplitReturns(p) =>
             /\ splitAccounts(p)
             /\ last'.inputs \subseteq InStore(proofs')
             /\ \A s \in last'.inputs : proofs'[s].reserved ]_vars

\* C16 (amended): the same, with the send proofs stored and reserved when
\* invalidate is false and removed from the store when invalidate is true.
SendSplitPostcondition ==
    [][ \A p \in Procs :
          sendSplitReturns(p) =>
             /\ splitAccounts(p)
             /\ IF loc[p].invalidate
                THEN last'.inputs \cap InStore(proofs') = {}
                ELSE /\ last'.inputs \subseteq InStore(proofs')
                     /\ \A s \in last'.inputs : proofs'[s].reserved ]_vars
\* a send has split a candidate: the keep proofs are stored unreserved, the
\* send proofs stored reserved, the candidate gone and the counter bumped
SendSplitWitness ==
    /\ last.op = "send" /\ last.path = "split"
    /\ last.outputs # {} /\ last.inputs # {}
    /\ last.outputs \subseteq InStore(proofs)
    /\ last.inputs \subseteq InStore(proofs)
    /\ \A s \in last.inputs : proofs[s].reserved
    /\ \A s \in last.outputs : ~proofs[s].reserved
    /\ proofs[3].st = "gone"
    /\ counterOf(keysetCounters) = 1 + Cardinality(last.outputs \cup last.inputs)

\* the stored proofs whose reserved flag is set
reservedIn(pf) == { s \in InStore(pf) : pf[s].reserved }
\* the proofs slot p's send holds after its step: the candidates for the mint,
\* or the send proofs it returns (to melt, or to its caller)
chosenBy(p) ==
    IF pc'[p] = "send_wait" THEN loc'[p].proofsToSend
    ELSE IF pc'[p] = "melt_lock" THEN loc'[p].sendProofs
    ELSE IF pc'[p] = "idle" /\ last'.op = "send" THEN last'.inputs
    ELSE {}

\* C17: a proof that is reserved when send selects is neither among the
\* candidates send passes to the mint nor among the send proofs it returns,
\* for a send called directly and for the send inside melt; so the proofs
\* reserved for a melt quote are never chosen by a later send or melt.
ReservedNeverSelected ==
    [][ \A p \in Procs :
          (pc[p] \in { "send_cs", "send_wait" } /\ pc'[p] # pc[p]) =>
             /\ chosenBy(p) \cap reservedIn(proofs) = {}
             /\ \A q \in Quotes : chosenBy(p) \cap reservedUnder(proofs, q) = {} ]_vars
\* a send has returned proofs while other proofs stay reserved for a melt quote
ReservedNeverSelectedWitness ==
    /\ last.op = "send" /\ last.path \in { "no_split", "split" }
    /\ last.inputs # {}
    /\ \E q \in Quotes :
          /\ reservedUnder(proofs, q) # {}
          /\ last.inputs \cap reservedUnder(proofs, q) = {}

\* C18: when melt succeeds for a quote of amount a and fee reserve f with
\* change summing to c, 0 <= c <= a + f, every history entry of the quote is
\* paid with amount -(a + f - c), there is such an entry, and the token
\* history has gained one paid entry with the same amount.
MeltPaidAmount ==
    [][ \A p \in Procs :
          (pc[p] = "melt_wait" /\ pc'[p] = "idle" /\ last'.path = "ok") =>
             LET q == loc[p].quote
                 c == sumProofs(proofs', last'.outputs)
                 amount_paid == q.amount + q.fee_reserve - c
             IN  (c >= 0 /\ c <= q.amount + q.fee_reserve) =>
                    /\ entriesOf(invoiceHistory', q.quote) # {}
                    /\ \A i \in entriesOf(invoiceHistory', q.quote) :
                           /\ invoiceHistory'[i].status = "paid"
                           /\ invoiceHistory'[i].amount = -amount_paid
                    /\ Len(historyTokens') = Len(historyTokens) + 1
                    /\ historyTokens'[Len(historyTokens')].status = "paid"
                    /\ historyTokens'[Len(historyTokens')].amount = -amount_paid ]_vars

\* slot p's multiPathMeltQuotes has built its payloads in this step
payloadsBuilt(p) ==
    /\ pc[p] = "idle" /\ pc'[p] = "multiPath_wait"
\* the partial amounts of the payloads on the session
payloadAmounts(d) ==
    [ i \in DOMAIN d.multiPartMeltQuotes.payloads |->
        d.multiPartMeltQuotes.payloads[i].amount ]

\* C19: for an invoice amount the overall balance covers and weights that are
\* not negative and sum to 1, the partial amounts of the payloads sum to the
\* invoice amount, every payload has a positive amount, and the payloads are
\* in the order of their mints, at most one for each.
MppPartialsSumToInvoice ==
    [][ \A p \in Procs :
          (/\ payloadsBuilt(p)
           /\ \A i \in DOMAIN loc'[p].weights : loc'[p].weights[i] >= 0
           /\ SumSeq(loc'[p].weights) = 10) =>
             LET payloads == payInvoiceData'.multiPartMeltQuotes.payloads
             IN  /\ payloads = loc'[p].payloads
                 /\ SumSeq(payloadAmounts(payInvoiceData')) = payInvoiceData.invoice.sat
                 /\ \A i \in DOMAIN payloads :
                        /\ payloads[i].amount > 0
                        /\ payloads[i].mint \in DOMAIN loc'[p].weights
                        /\ \A j \in DOMAIN payloads :
                               i < j => payloads[i].mint < payloads[j].mint ]_vars
\* an invoice of 3 sat split over three mints with weights 0.2, 0.1 and 0.7:
\* 0.6 rounds up to 1, 0.3 - 0.4 rounds to 0 and the second mint has no
\* payload, 2.1 - 0.1 is 2
MppPartialsWitness ==
    \E p \in Procs :
        /\ pc[p] = "multiPath_wait"
        /\ loc[p].weights = << 2, 1, 7 >>
        /\ payInvoiceData.invoice.sat = 3
        /\ payInvoiceData.multiPartMeltQuotes.payloads =
             << [ mint |-> 1, amount |-> 1 ], [ mint |-> 3, amount |-> 2 ] >>

\* the invoice of 333 sat over mints with weights 0.5, 0.3, 0.2 is being quoted
threeMintsQuoted(p) ==
    /\ payloadsBuilt(p)
    /\ payInvoiceData.invoice.sat = 333
    /\ loc'[p].weights = ThreeMints.weights

\* C20 (as stated): 333 sat over weights [0.5, 0.3, 0.2] is allocated as
\* [167, 100, 66].
MppExampleAsStated ==
    [][ \A p \in Procs :
          threeMintsQuoted(p) =>
             payloadAmounts(payInvoiceData') = << 167, 100, 66 >> ]_vars

\* C20 (amended): 333 sat over weights [0.5, 0.3, 0.2] is allocated as
\* [167, 99, 67]: 166.5 rounds up, the error of -0.5 makes 99.9 round to 99,
\* and the error of 0.4 makes 66.6 round to 67.
MppExample ==
    [][ \A p \in Procs :
          threeMintsQuoted(p) =>
             payloadAmounts(payInvoiceData') = << 167, 99, 67 >> ]_vars
\* the three payloads of the example are on the session
MppExampleWitness ==
    \E p \in Procs :
        /\ pc[p] = "multiPath_wait"
        /\ loc[p].weights = ThreeMints.weights
        /\ payInvoiceData.invoice.sat = 333
        /\ Len(payInvoiceData.multiPartMeltQuotes.payloads) = 3
        /\ SumSeq(payloadAmounts(payInvoiceData)) = 333

\* the fee reserve of a melt quote of the mint
feeReserveOf(quote) ==
    (CHOOSE r \in MeltQuoteResponses \cup { RefundQuote } : r.quote = quote).fee_reserve
\* slot p's checkOutgoingInvoice leaves by the path named, in this step
outgoingExits(p, path) ==
    /\ pc[p] \in { "checkOutgoing_wait", "checkProofs_wait" }
    /\ loc[p].op = "checkOutgoingInvoice"
    /\ pc'[p] = "idle"
    /\ last'.path = path

\* C22: checkOutgoingInvoice handles the quote's state as melt's failure path
\* does: PENDING fails and changes nothing; UNPAID unreserves every proof bound
\* to the quote, takes the counter bump of the quote's melt back and removes
\* the pending entry; PAID removes the spent proofs bound to the quote and
\* sets the entry paid.
CheckOutgoingAsMeltFailure ==
    [][ \A p \in Procs :
          LET quote == loc[p].quote.quote
              bound == loc[p].proofs
          IN  /\ outgoingExits(p, "pending") =>
                    /\ proofs' = proofs /\ keysetCounters' = keysetCounters
                    /\ invoiceHistory' = invoiceHistory
                    /\ historyTokens' = historyTokens
              /\ outgoingExits(p, "unpaid") =>
                    /\ \A s \in bound : ~proofs'[s].reserved
                    /\ invoiceHistory' =
                         removeOutgoingInvoiceFromHistory(invoiceHistory, quote)
                    /\ bound # {} =>
                         keysetCounters' =
                           increaseKeysetCounter(keysetCounters, KeysetId,
                               -keysetCounterIncrease(Cardinality(bound),
                                                      feeReserveOf(quote)))
              /\ outgoingExits(p, "ok") =>
                    /\ \A s \in bound \cap mintSpent : proofs'[s].st # "store"
                    /\ \E i \in DOMAIN invoiceHistory' :
                           /\ invoiceHistory'[i].quote = quote
                           /\ invoiceHistory'[i].status = "paid" ]_vars

\* slot p's checkProofsSpendable, called on its own, returns in this step
reconciled(p) ==
    /\ pc[p] = "checkProofs_wait" /\ loc[p].op = "checkProofsSpendable"
    /\ pc'[p] = "idle" /\ last'.path = "ok"

\* C23: checkProofsSpendable removes from the store exactly the given proofs
\* the mint reports SPENT and returns them, and a second run on the same
\* proofs with the same answers of the mint leaves the proof store and the
\* token history as the first run left them, also with update_history.
CheckProofsSpendableIdempotent ==
    [][ \A p \in Procs :
          reconciled(p) =>
             LET given == loc[p].proofs
                 spentProofs == given \cap mintSpent
             IN  /\ last'.outputs = spentProofs
                 /\ \A s \in Secrets :
                        IF s \in spentProofs THEN proofs'[s].st # "store"
                        ELSE proofs'[s] = proofs[s]
                 /\ checkedProofs(proofs', spentProofs) = proofs'
                 /\ checkedHistory(historyTokens', proofs', spentProofs,
                                   loc[p].update_history) = historyTokens' ]_vars

\* slot p's checkTokenSpendable returns true or false in this step
tokenChecked(p) ==
    /\ pc[p] = "checkToken_wait" /\ pc'[p] = "idle"
    /\ last'.path \in { "ok", "not_spent" }

\* C24: checkTokenSpendable marks the history entry of a token paid when every
\* proof of it is spent; when only some are spent it makes the entry a paid
\* one for the spent amount and appends a pending one for the unspent amount,
\* both with the sign of the original amount and adding up to it; when none
\* is spent the history stays as it is and false is returned.
CheckTokenSpendableHistory ==
    [][ \A p \in Procs :
          tokenChecked(p) =>
             LET tok == loc[p].proofs
                 spent == tok \cap mintSpent
                 i == historyIndex(historyTokens, tok)
                 n == Len(historyTokens)
                 original == historyTokens[i].amount
             IN  /\ (spent = tok /\ i # 0) =>
                       /\ historyTokens' = [ historyTokens EXCEPT ![i].status = "paid" ]
                       /\ last'.path = "ok"
                 /\ (spent # {} /\ spent # tok /\ i # 0) =>
                       /\ Len(historyTokens') = n + 1
                       /\ \A j \in 1..n : j # i => historyTokens'[j] = historyTokens[j]
                       /\ historyTokens'[i] =
                            [ amount |-> sign(original) * sumProofs(proofs, spent),
                              status |-> "paid", token |-> spent ]
                       /\ historyTokens'[n + 1] =
                            [ amount |-> sign(original) * sumProofs(proofs, tok \ spent),
                              status |-> "pending", token |-> tok \ spent ]
                       /\ historyTokens'[i].amount + historyTokens'[n + 1].amount = original
                       /\ last'.path = "ok"
                 /\ spent = {} =>
                       /\ historyTokens' = historyTokens
                       /\ last'.path = "not_spent" ]_vars
\* the sent token of -3 has been split: 1 sat spent and paid, 2 sat pending
CheckTokenSpendableWitness ==
    /\ last.op = "checkTokenSpendable" /\ last.path = "ok"
    /\ historyTokens = << [ amount |-> -1, status |-> "paid", token |-> { 1 } ],
                          [ amount |-> -2, status |-> "pending", token |-> { 2 } ] >>

\* C25: in every reachable state, after any mints, sends, redeems, melts (with
\* their rollbacks and recoveries) and rotations of the mnemonic, every stored
\* keyset counter is a non-negative integer.
CountersNonNegative ==
    \A id \in DOMAIN keysetCounters : keysetCounters[id] \in Nat


\* C26: newMnemonic appends to the archive an entry with the mnemonic and the
\* keyset counters as they were when it was called and leaves the active
\* counters empty; no step changes or removes an entry the archive holds.
rotated == oldMnemonicCounters' # oldMnemonicCounters
ArchiveKeepsCounters ==
    [][ /\ rotated =>
            /\ oldMnemonicCounters' =
                 Append(oldMnemonicCounters,
                        [ mnemonic |-> mnemonic, keysetCounters |-> keysetCounters ])
            /\ keysetCounters' = << >>
        /\ Len(oldMnemonicCounters') >= Len(oldMnemonicCounters)
        /\ \A i \in DOMAIN oldMnemonicCounters :
              oldMnemonicCounters'[i] = oldMnemonicCounters[i] ]_vars
\* an archived counter of 4 stays while the new mnemonic's counter is bumped
ArchiveKeepsCountersWitness ==
    /\ Len(oldMnemonicCounters) = 1
    /\ oldMnemonicCounters[1].mnemonic = 1
    /\ KeysetId \in DOMAIN oldMnemonicCounters[1].keysetCounters
    /\ oldMnemonicCounters[1].keysetCounters[KeysetId] > 1
    /\ KeysetId \in DOMAIN keysetCounters
    /\ keysetCounters[KeysetId] # oldMnemonicCounters[1].keysetCounters[KeysetId]
    /\ mnemonic = 2

(***************************************************************************)
(* getKeyset on the keysets a mint may announce                            *)
(***************************************************************************)
MaxKeysets == 3
Units == { "sat", "usd" }
ActiveUnit == "sat"
KeysetIds ==
    { <<"0", "0", "a">>, <<"0", "0", "b">>, <<"0", "1", "c">>, <<"b", "6", "4">> }
Keysets == [ id : KeysetIds, active : BOOLEAN, unit : Units ]
\* the lists of up to MaxKeysets keysets with distinct ids
KeysetLists ==
    { ks \in UNION { [ 1..n -> Keysets ] : n \in 0..MaxKeysets } :
        \A i, j \in DOMAIN ks : ks[i].id = ks[j].id => i = j }

\* activeMint().unitKeysets(unit): the mint's keysets of the unit, in order
unitKeysets(keysets, unit) ==
    LET ofUnit(k) == k.unit = unit IN SelectSeq(keysets, ofUnit)

\* the error getKeyset throws for the keysets of the mint, "" for none
getKeysetError(keysets, unit) ==
    IF Len(keysets) = 0 THEN "no keysets found."
    ELSE IF Len(unitKeysets(keysets, unit)) = 0 THEN "no keysets found for unit"
    ELSE IF getKeyset(unitKeysets(keysets, unit)) = NoKeyset
         THEN "no active keysets found for unit"
    ELSE ""

\* a wallet whose active mint has announced the keysets last.arg
InitKeyset ==
    /\ pc = [ p \in Procs |-> "idle" ]
    /\ loc = [ p \in Procs |-> NoLoc ]
    /\ mutex = 0
    /\ proofs = InitProofs
    /\ keysetCounters = << >>
    /\ invoiceHistory = << >>
    /\ historyTokens = << >>
    /\ payInvoiceData = NewSession
    /\ isUnloading = FALSE
    /\ meltState = [ q \in Quotes |-> [ state |-> "UNPAID", inputs |-> {} ] ]
    /\ mintSpent = {}
    /\ calls = 0
    /\ last \in { [ NoRet EXCEPT !.op = "activeMint", !.arg = keysets ] :
                     keysets \in KeysetLists }
    /\ mnemonic = 1
    /\ oldMnemonicCounters = << >>
    /\ subscriptions = << >>
    /\ workers = {}

\* getKeyset() on the keysets of the active mint
getKeysetCall ==
    /\ last.op = "activeMint"
    /\ LET keysets == last.arg IN
         last' = [ NoRet EXCEPT
                     !.op = "getKeyset",
                     !.path = IF getKeysetError(keysets, ActiveUnit) = ""
                              THEN "ok" ELSE "error",
                     !.err = getKeysetError(keysets, ActiveUnit),
                     !.arg = keysets,
                     !.value = getKeyset(unitKeysets(keysets, ActiveUnit)) ]
    /\ UNCHANGED << pc, loc, mutex, proofs, keysetCounters, invoiceHistory, historyTokens,
                    payInvoiceData, isUnloading, meltState, mintSpent, calls,
                    mnemonic, oldMnemonicCounters, subscriptions, workers >>

KeysetNext == getKeysetCall
SpecKeyset == InitKeyset /\ [][KeysetNext]_vars

\* C27: getKeyset returns the first active keyset of the unit whose id starts
\* with "00", in the mint's order, or without one the first active keyset of
\* the unit; the keyset returned is active; it fails when the mint has no
\* keysets, none for the unit or no active one for the unit.
Least(S) == CHOOSE i \in S : \A j \in S : i <= j
GetKeysetSelects ==
    last.op = "getKeyset" =>
        LET ks == last.arg
            ofUnit == { i \in DOMAIN ks : ks[i].unit = ActiveUnit }
            active == { i \in ofUnit : ks[i].active }
            hex == { i \in active : ks[i].id[1] = "0" /\ ks[i].id[2] = "0" }
        IN  /\ Len(ks) = 0 => last.path = "error" /\ last.err = "no keysets found."
            /\ Len(ks) > 0 /\ ofUnit = {} =>
                   last.path = "error" /\ last.err = "no keysets found for unit"
            /\ ofUnit # {} /\ active = {} =>
                   last.path = "error" /\ last.err = "no active keysets found for unit"
            /\ active # {} =>
                   /\ last.path = "ok"
                   /\ last.value = ks[IF hex # {} THEN Least(hex) ELSE Least(active)].id
                   /\ \E i \in active : ks[i].id = last.value
\* an inactive "00" keyset and an active other one come before the keyset chosen
GetKeysetSelectsWitness ==
    /\ last.op = "getKeyset"
    /\ last.arg = << [id |-> <<"0", "0", "a">>, active |-> FALSE, unit |-> "sat"],
                     [id |-> <<"b", "6", "4">>, active |-> TRUE, unit |-> "sat"],
                     [id |-> <<"0", "0", "b">>, active |-> TRUE, unit |-> "sat"] >>
    /\ last.value = <<"0", "0", "b">>

(***************************************************************************)
(* splitAmount on amounts beyond 32 bits                                   *)
(* An amount is held in two parts, value = hi * Limb + lo with lo < Limb,  *)
(* so that amounts of more than 31 bits can be computed with.              *)
(***************************************************************************)
MaxBit == 33
MaxOnes == 2
Limb == Pow2(16)
wide(hi, lo) == [ hi |-> hi, lo |-> lo ]
addWide(a, b) ==
    wide(a.hi + b.hi + ((a.lo + b.lo) \div Limb), (a.lo + b.lo) % Limb)
RECURSIVE sumWide(_)
sumWide(chunks) ==
    IF Len(chunks) = 0 THEN wide(0, 0) ELSE addWide(chunks[1], sumWide(Tail(chunks)))
\* Math.pow(2, i)
powWide(i) == IF i < 16 THEN wide(0, Pow2(i)) ELSE wide(Pow2(i - 16), 0)
\* the binary digit i of the amount
bitOf(value, i) ==
    IF i < 16 THEN (value.lo \div Pow2(i)) % 2 ELSE (value.hi \div Pow2(i - 16)) % 2
\* value & (1 << i) for i < 32: both operands are taken as 32-bit integers,
\* the result is not 0 exactly if the binary digit i of value is set
andMask(value, i) == bitOf(value, i)

\* splitAmount as the loop computes it, from i on
RECURSIVE splitAmountLoop(_, _)
splitAmountLoop(value, i) ==
    IF i >= 32 THEN << >>
    ELSE (IF andMask(value, i) # 0 THEN << powWide(i) >> ELSE << >>)
         \o splitAmountLoop(value, i + 1)

\* the amounts with at most MaxOnes binary digits set, up to digit MaxBit
RECURSIVE DigitSets(_)
DigitSets(n) ==
    IF n = 0 THEN { {} }
    ELSE LET D == DigitSets(n - 1) IN D \cup { T \cup {i} : T \in D, i \in 0..MaxBit }
SplitValues ==
    { sumWide([ k \in 1..MaxBit + 1 |-> IF (k - 1) \in S THEN powWide(k - 1) ELSE wide(0, 0) ]) :
        S \in DigitSets(MaxOnes) }

\* a wallet about to split the amount last.arg
InitSplit ==
    /\ pc = [ p \in Procs |-> "idle" ]
    /\ loc = [ p \in Procs |-> NoLoc ]
    /\ mutex = 0
    /\ proofs = InitProofs
    /\ keysetCounters = << >>
    /\ invoiceHistory = << >>
    /\ historyTokens = << >>
    /\ payInvoiceData = NewSession
    /\ isUnloading = FALSE
    /\ meltState = [ q \in Quotes |-> [ state |-> "UNPAID", inputs |-> {} ] ]
    /\ mintSpent = {}
    /\ calls = 0
    /\ last \in { [ NoRet EXCEPT !.op = "amount", !.arg = value ] : value \in SplitValues }
    /\ mnemonic = 1
    /\ oldMnemonicCounters = << >>
    /\ subscriptions = << >>
    /\ workers = {}

\* splitAmount(value)
splitAmountCall ==
    /\ last.op = "amount"
    /\ last' = [ NoRet EXCEPT !.op = "splitAmount", !.path = "ok",
                              !.arg = last.arg,
                              !.value = splitAmountLoop(last.arg, 0) ]
    /\ UNCHANGED << pc, loc, mutex, proofs, keysetCounters, invoiceHistory, historyTokens,
                    payInvoiceData, isUnloading, meltState, mintSpent, calls,
                    mnemonic, oldMnemonicCounters, subscriptions, workers >>

SplitNext == splitAmountCall
SpecSplit == InitSplit /\ [][SplitNext]_vars

\* C28: for every non-negative integer v the chunks of splitAmount(v) sum to
\* v, each chunk is a power of two and no chunk size occurs twice.
SplitAmountSums ==
    last.op = "splitAmount" =>
        /\ sumWide(last.value) = last.arg
        /\ \A k \in DOMAIN last.value : \E i \in 0..MaxBit : last.value[k] = powWide(i)
        /\ \A j, k \in DOMAIN last.value : last.value[j] = last.value[k] => j = k

(***************************************************************************)
(* decodeRequest                                                           *)
(* A request is a sequence of tokens, each standing for a run of           *)
(* characters; the patterns of decodeRequest begin and end at token        *)
(* boundaries.                                                             *)
(***************************************************************************)
MaxTokens == 3
Tokens ==
    { "lnbc", "LNBC", "lightning:", "bitcoin:", "lightning=", "lnurl:", "lnurl1",
      "user@host", "cashuA", "cashuB", "token=", "02pubkey", "http", "creqA", "&", "x" }
Requests == UNION { [ 1..n -> Tokens ] : n \in 0..MaxTokens }

\* toLowerCase of a token: "LNBC" is the token with upper-case letters that
\* a pattern compared in lower case can match
toLowerCase(t) == IF t = "LNBC" THEN "lnbc" ELSE t
startsWith(req, pattern) == Len(req) >= 1 /\ req[1] = pattern
lowerStartsWith(req, pattern) == Len(req) >= 1 /\ toLowerCase(req[1]) = pattern
\* req.indexOf(a + b) !== -1 for some b of B
indexOf(req, a, B) == \E i \in 1..Len(req) - 1 : req[i] = a /\ req[i + 1] \in B
\* req.match(/lightning=([^&]+)/)
matchLightning(req) == indexOf(req, "lightning=", Tokens \ { "&" })
\* req.match(/[\w.+-~_]+@[\w.+-~_]/)
matchAddress(req) == \E i \in DOMAIN req : req[i] = "user@host"
\* p2pkStore.isValidPubkey(req)
isValidPubkey(req) == req = << "02pubkey" >>

\* the branches of decodeRequest after the bitcoin: branch
decodeRequestElse(req) ==
    IF lowerStartsWith(req, "lnurl:") THEN << "lnurlPayFirst" >>
    ELSE IF indexOf(req, "lightning=", { "lnurl1" }) THEN << "lnurlPayFirst" >>
    ELSE IF lowerStartsWith(req, "lnurl1") \/ matchAddress(req) THEN << "lnurlPayFirst" >>
    ELSE IF startsWith(req, "cashuA") \/ startsWith(req, "cashuB")
         THEN << "handleCashuToken" >>
    ELSE IF indexOf(req, "token=", { "cashuA", "cashuB" }) THEN << "handleCashuToken" >>
    ELSE IF isValidPubkey(req) THEN << "handleP2PK" >>
    ELSE IF startsWith(req, "http") THEN << "addMintData" >>
    ELSE IF startsWith(req, "creqA") THEN << "handlePaymentRequest" >>
    ELSE << >>

\* a decoder whose bitcoin: branch goes on to the later branches
decodeRequestFallsThrough(req) ==
    IF lowerStartsWith(req, "lnbc") THEN << "handleBolt11Invoice" >>
    ELSE IF lowerStartsWith(req, "lightning:") THEN << "handleBolt11Invoice" >>
    ELSE IF startsWith(req, "bitcoin:") /\ matchLightning(req)
         THEN << "handleBolt11Invoice" >>
    ELSE decodeRequestElse(req)

\* decodeRequest: the handlers called for the request, in order
decodeRequest(req) ==
    IF lowerStartsWith(req, "lnbc") THEN << "handleBolt11Invoice" >>
    ELSE IF lowerStartsWith(req, "lightning:") THEN << "handleBolt11Invoice" >>
    ELSE IF startsWith(req, "bitcoin:")
         THEN (IF matchLightning(req) THEN << "handleBolt11Invoice" >> ELSE << >>)
    ELSE decodeRequestElse(req)

\* a wallet about to decode the request last.arg
InitDecode ==
    /\ pc = [ p \in Procs |-> "idle" ]
    /\ loc = [ p \in Procs |-> NoLoc ]
    /\ mutex = 0
    /\ proofs = InitProofs
    /\ keysetCounters = << >>
    /\ invoiceHistory = << >>
    /\ historyTokens = << >>
    /\ payInvoiceData = NewSession
    /\ isUnloading = FALSE
    /\ meltState = [ q \in Quotes |-> [ state |-> "UNPAID", inputs |-> {} ] ]
    /\ mintSpent = {}
    /\ calls = 0
    /\ last \in { [ NoRet EXCEPT !.op = "request", !.arg = req ] : req \in Requests }
    /\ mnemonic = 1
    /\ oldMnemonicCounters = << >>
    /\ subscriptions = << >>
    /\ workers = {}

\* decodeRequest(req) up to the call of the handler
decodeRequestCall ==
    /\ last.op = "request"
    /\ last' = [ NoRet EXCEPT !.op = "decodeRequest", !.path = "ok",
                              !.arg = last.arg,
                              !.value = decodeRequest(last.arg) ]
    /\ UNCHANGED << pc, loc, mutex, proofs, keysetCounters, invoiceHistory, historyTokens,
                    payInvoiceData, isUnloading, meltState, mintSpent, calls,
                    mnemonic, oldMnemonicCounters, subscriptions, workers >>

DecodeNext == decodeRequestCall
SpecDecode == InitDecode /\ [][DecodeNext]_vars

\* C29: decodeRequest calls the handler of the first row of the classification
\* table that the request matches and no other handler; a request matching no
\* row, or one starting with bitcoin: without a lightning= parameter, calls none.
TableHandlers ==
    << "handleBolt11Invoice", "handleBolt11Invoice", "handleBolt11Invoice",
       "lnurlPayFirst", "lnurlPayFirst", "lnurlPayFirst",
       "handleCashuToken", "handleCashuToken", "handleP2PK", "addMintData",
       "handlePaymentRequest" >>
rowMatches(n, req) ==
    LET first == IF Len(req) = 0 THEN "" ELSE req[1]
        follows(a, B) == \E i \in DOMAIN req : i < Len(req) /\ req[i] = a /\ req[i + 1] \in B
    IN CASE n = 1 -> first \in { "lnbc", "LNBC" }
         [] n = 2 -> first = "lightning:"
         [] n = 3 -> first = "bitcoin:" /\ follows("lightning=", Tokens \ { "&" })
         [] n = 4 -> first = "lnurl:"
         [] n = 5 -> follows("lightning=", { "lnurl1" })
         [] n = 6 -> first = "lnurl1" \/ "user@host" \in { req[i] : i \in DOMAIN req }
         [] n = 7 -> first \in { "cashuA", "cashuB" }
         [] n = 8 -> follows("token=", { "cashuA", "cashuB" })
         [] n = 9 -> req = << "02pubkey" >>
         [] n = 10 -> first = "http"
         [] n = 11 -> first = "creqA"
DecodeFirstMatch ==
    last.op = "decodeRequest" =>
        LET req == last.arg
            rows == { n \in DOMAIN TableHandlers : rowMatches(n, req) }
            bitcoinOnly == Len(req) >= 1 /\ req[1] = "bitcoin:" /\ ~rowMatches(3, req)
        IN  /\ Len(last.value) <= 1
            /\ rows = {} \/ bitcoinOnly => last.value = << >>
            /\ rows # {} /\ ~bitcoinOnly =>
                   last.value = << TableHandlers[Least(rows)] >>
\* a mint URL holding a lightning address goes to LNURL pay, the earlier row
DecodeFirstMatchWitness ==
    /\ last.op = "decodeRequest"
    /\ last.arg = << "http", "user@host" >>
    /\ last.value = << "lnurlPayFirst" >>

(***************************************************************************)
(* lnurlPayFirst                                                           *)
(***************************************************************************)
\* the addresses handed to lnurlPayFirst: a lightning address, a bech32
\* LNURL, and a string that is neither
LnurlAddresses == { "user@host", "lnurl1host", "x" }
\* the answers of the LNURL host, sendable amounts in msat
LnurlResponses ==
    [ tag : { "payRequest", "withdrawRequest" },
      minSendable : { 1000, 2000 },
      maxSendable : { 2000, 3000 } ]
\* the host the address names, "" for none (host == undefined)
lnurlHost(address) ==
    IF address = "user@host" THEN "host"
    ELSE IF address = "lnurl1host" THEN "host"
    ELSE ""

\* the address names no host: "Invalid LNURL" is notified, nothing changes
lnurlPayFirstInvalid(p, address) ==
    /\ Reject(p)
    /\ lnurlHost(address) = ""
    /\ Exit(p, [ NoRet EXCEPT !.op = "lnurlPayFirst", !.path = "rejected",
                   !.err = "Invalid LNURL" ])
    /\ UNCHANGED << mutex, proofs, keysetCounters, invoiceHistory, historyTokens,
                    payInvoiceData, isUnloading, meltState, mintSpent >>

\* the host is asked: axios.get(host)
lnurlPayFirstCall(p, address) ==
    /\ Call(p)
    /\ lnurlHost(address) # ""
    /\ Start(p, "lnurlPayFirst", "lnurlPay_wait",
             [ NoLoc EXCEPT !.op = "lnurlPayFirst", !.req = address ])
    /\ UNCHANGED << mutex, proofs, keysetCounters, invoiceHistory, historyTokens,
                    payInvoiceData, isUnloading, meltState, mintSpent >>

\* the session after a payRequest answer: the answer is stored with its
\* domain, the amount is set for minSendable = maxSendable, then the invoice
\* is set to null, the input is replaced by an empty one and the dialog shown
lnurlPayRequest(session, data, host) ==
    LET stored == [ session EXCEPT
                      !.lnurlpay = [ tag |-> data.tag,
                                     minSendable |-> data.minSendable,
                                     maxSendable |-> data.maxSendable,
                                     domain |-> host ] ]
        amountSet ==
            IF stored.lnurlpay.maxSendable = stored.lnurlpay.minSendable
            THEN [ stored EXCEPT
                     !.amount = [ null |-> FALSE,
                                  value |-> stored.lnurlpay.maxSendable \div 1000 ] ]
            ELSE stored
    IN  [ amountSet EXCEPT !.invoice = NullInvoice,
                           !.request = "",
                           !.amount = NullAmount,
                           !.show = TRUE ]

\* the host answers
lnurlPayFirstResponse(p, data) ==
    /\ pc[p] = "lnurlPay_wait"
    /\ payInvoiceData' =
         IF data.tag = "payRequest"
         THEN lnurlPayRequest(payInvoiceData, data, lnurlHost(loc[p].req))
         ELSE payInvoiceData
    /\ Exit(p, [ NoRet EXCEPT !.op = "lnurlPayFirst", !.path = "ok", !.arg = << data >> ])
    /\ UNCHANGED << mutex, proofs, keysetCounters, invoiceHistory, historyTokens,
                    isUnloading, meltState, mintSpent, calls >>

\* axios.get throws
lnurlPayFirstFail(p) ==
    /\ pc[p] = "lnurlPay_wait"
    /\ Exit(p, [ NoRet EXCEPT !.op = "lnurlPayFirst", !.path = "failed",
                   !.err = NetworkError ])
    /\ UNCHANGED << mutex, proofs, keysetCounters, invoiceHistory, historyTokens,
                    payInvoiceData, isUnloading, meltState, mintSpent, calls >>

LnurlNext ==
    \E p \in Procs :
        \/ \E address \in LnurlAddresses :
               lnurlPayFirstInvalid(p, address) \/ lnurlPayFirstCall(p, address)
        \/ \E data \in LnurlResponses : lnurlPayFirstResponse(p, data)
        \/ lnurlPayFirstFail(p)
SpecLnurl == Init /\ [][LnurlNext]_vars

\* C30: when lnurlPayFirst completes on a payRequest answer with minSendable
\* equal to maxSendable, the input amount of the session is maxSendable / 1000.
lnurlPayCompletes ==
    /\ last'.op = "lnurlPayFirst"
    /\ last'.path = "ok"
    /\ \E p \in Procs : pc[p] = "lnurlPay_wait" /\ pc'[p] = "idle"
LnurlFixedAmountSet ==
    [][ lnurlPayCompletes /\ last'.arg[1].tag = "payRequest"
            /\ last'.arg[1].minSendable = last'.arg[1].maxSendable
        => payInvoiceData'.amount =
             [ null |-> FALSE, value |-> last'.arg[1].maxSendable \div 1000 ] ]_vars

(***************************************************************************)
(* onTokenPaid and mintOnPaid: websocket subscriptions and workers          *)
(***************************************************************************)
\* a subscription the wallet opened: fired when its terminal update was
\* handed to the callback, error when the error callback ran
NewSubscription ==
    [ kind |-> "", token |-> {}, quote |-> "", amount |-> 0,
      open |-> TRUE, fired |-> FALSE, error |-> FALSE ]
NewWorker == [ worker |-> "", token |-> {}, quote |-> "" ]
checkTokenSpendableWorker(tok) ==
    [ NewWorker EXCEPT !.worker = "checkTokenSpendableWorker", !.token = tok ]
invoiceCheckWorker(quote) ==
    [ NewWorker EXCEPT !.worker = "invoiceCheckWorker", !.quote = quote ]
\* proofs[0] of a token
firstProof(tok) == CHOOSE s \in tok : \A t \in tok : s <= t
\* the invoices of the history with the quote
invoicesOf(quote) == { i \in DOMAIN invoiceHistory : invoiceHistory[i].quote = quote }

\* onTokenPaid(tokenStr), with the setting checkSentTokens, websockets (the
\* setting and the mint's support) and the outcome of the subscription
onTokenPaid(tok, checkSentTokens, websockets, setup) ==
    /\ ~isUnloading
    /\ calls < MaxCalls
    /\ calls' = calls + 1
    /\ IF ~checkSentTokens
       THEN /\ last' = [ NoRet EXCEPT !.op = "onTokenPaid", !.path = "disabled",
                                      !.inputs = tok ]
            /\ UNCHANGED << subscriptions, workers >>
       ELSE IF ~websockets
       THEN /\ workers' = workers \cup { checkTokenSpendableWorker(tok) }
            /\ last' = [ NoRet EXCEPT !.op = "onTokenPaid", !.path = "worker",
                                      !.inputs = tok ]
            /\ UNCHANGED subscriptions
       ELSE IF tok = {} \/ setup # "ok"
       THEN /\ workers' = workers \cup { checkTokenSpendableWorker(tok) }
            /\ last' = [ NoRet EXCEPT !.op = "onTokenPaid", !.path = "setup_failed",
                                      !.inputs = tok ]
            /\ UNCHANGED subscriptions
       ELSE /\ subscriptions' =
                 Append(subscriptions,
                        [ NewSubscription EXCEPT !.kind = "proof_state", !.token = tok ])
            /\ last' = [ NoRet EXCEPT !.op = "onTokenPaid", !.path = "subscribed",
                                      !.inputs = tok ]
            /\ UNCHANGED workers
    /\ UNCHANGED << pc, loc, mutex, proofs, keysetCounters, invoiceHistory, historyTokens,
                    payInvoiceData, isUnloading, meltState, mintSpent,
                    mnemonic, oldMnemonicCounters >>

\* mintOnPaid(quote)
mintOnPaid(quote, websockets, setup) ==
    /\ ~isUnloading
    /\ calls < MaxCalls
    /\ calls' = calls + 1
    /\ IF ~websockets
       THEN /\ workers' = workers \cup { invoiceCheckWorker(quote) }
            /\ last' = [ NoRet EXCEPT !.op = "mintOnPaid", !.path = "worker",
                                      !.quote = quote ]
            /\ UNCHANGED subscriptions
       ELSE IF invoicesOf(quote) = {}
       THEN /\ last' = [ NoRet EXCEPT !.op = "mintOnPaid", !.path = "rejected",
                                      !.err = "invoice not found", !.quote = quote ]
            /\ UNCHANGED << subscriptions, workers >>
       ELSE IF setup # "ok"
       THEN /\ workers' = workers \cup { invoiceCheckWorker(quote) }
            /\ last' = [ NoRet EXCEPT !.op = "mintOnPaid", !.path = "setup_failed",
                                      !.quote = quote ]
            /\ UNCHANGED subscriptions
       ELSE /\ subscriptions' =
                 Append(subscriptions,
                        [ NewSubscription EXCEPT
                            !.kind = "bolt11_mint_quote", !.quote = quote,
                            !.amount = invoiceHistory[Least(invoicesOf(quote))].amount ])
            /\ last' = [ NoRet EXCEPT !.op = "mintOnPaid", !.path = "subscribed",
                                      !.quote = quote ]
            /\ UNCHANGED workers
    /\ UNCHANGED << pc, loc, mutex, proofs, keysetCounters, invoiceHistory, historyTokens,
                    payInvoiceData, isUnloading, meltState, mintSpent,
                    mnemonic, oldMnemonicCounters >>

\* the mint reports the subscribed proof SPENT: the callback of onTokenPaid
\* calls checkTokenSpendable and awaits it
proofSpentCallback(p, n) ==
    /\ pc[p] = "idle"
    /\ \A q \in Procs : pc[q] = "idle" => p <= q
    /\ n \in DOMAIN subscriptions
    /\ subscriptions[n].kind = "proof_state"
    /\ subscriptions[n].open /\ ~subscriptions[n].fired
    /\ firstProof(subscriptions[n].token) \in mintSpent
    /\ subscriptions' = [ subscriptions EXCEPT ![n].fired = TRUE ]
    /\ pc' = [ pc EXCEPT ![p] = "checkToken_activate" ]
    /\ loc' = [ loc EXCEPT ![p] = [ NoLoc EXCEPT !.op = "checkTokenSpendable",
                                                 !.proofs = subscriptions[n].token,
                                                 !.unsub = n ] ]
    /\ last' = [ NoRet EXCEPT !.slot = p, !.op = "checkTokenSpendable", !.path = "called" ]
    /\ UNCHANGED << mutex, proofs, keysetCounters, invoiceHistory, historyTokens,
                    payInvoiceData, isUnloading, meltState, mintSpent, calls,
                    mnemonic, oldMnemonicCounters, workers >>

\* the mint reports the quote paid: the callback of mintOnPaid calls mint and
\* awaits it
quotePaidCallback(p, n) ==
    /\ pc[p] = "idle"
    /\ \A q \in Procs : pc[q] = "idle" => p <= q
    /\ n \in DOMAIN subscriptions
    /\ subscriptions[n].kind = "bolt11_mint_quote"
    /\ subscriptions[n].open /\ ~subscriptions[n].fired
    /\ KeysetId # NoKeyset
    /\ subscriptions' = [ subscriptions EXCEPT ![n].fired = TRUE ]
    /\ pc' = [ pc EXCEPT ![p] = "mint_lock" ]
    /\ loc' = [ loc EXCEPT ![p] =
                  [ NoLoc EXCEPT !.op = "mint", !.keysetId = KeysetId,
                                 !.amount = subscriptions[n].amount,
                                 !.quote = [ EmptyQuoteResponse EXCEPT
                                               !.quote = subscriptions[n].quote ],
                                 !.unsub = n ] ]
    /\ last' = [ NoRet EXCEPT !.slot = p, !.op = "mint", !.path = "called" ]
    /\ UNCHANGED << mutex, proofs, keysetCounters, invoiceHistory, historyTokens,
                    payInvoiceData, isUnloading, meltState, mintSpent, calls,
                    mnemonic, oldMnemonicCounters, workers >>

\* the websocket reports an error: the error callback notifies and rethrows
errorCallback(n) ==
    /\ n \in DOMAIN subscriptions
    /\ subscriptions[n].open /\ ~subscriptions[n].error
    /\ subscriptions' = [ subscriptions EXCEPT ![n].error = TRUE ]
    /\ last' = [ NoRet EXCEPT !.op = "errorCallback", !.path = "failed",
                              !.err = NetworkError ]
    /\ UNCHANGED << pc, loc, mutex, proofs, keysetCounters, invoiceHistory, historyTokens,
                    payInvoiceData, isUnloading, meltState, mintSpent, calls,
                    mnemonic, oldMnemonicCounters, workers >>

SubscribeNext ==
    \/ \E tok \in CheckedTokens, c \in BOOLEAN, ws \in BOOLEAN, s \in { "ok", "fails" } :
           onTokenPaid(tok, c, ws, s)
    \/ \E q \in MintQuotes, ws \in BOOLEAN, s \in { "ok", "fails" } : mintOnPaid(q, ws, s)
    \/ \E p \in Procs, n \in 1..MaxCalls : proofSpentCallback(p, n)
    \/ \E p \in Procs, n \in 1..MaxCalls : quotePaidCallback(p, n)
    \/ \E n \in 1..MaxCalls : errorCallback(n)
WsNext == SubscribeNext \/ MintNext \/ TokenNext
SpecWs == InitSent /\ [][WsNext]_vars

\* C21: a subscription opened by onTokenPaid or mintOnPaid is closed once its
\* terminal event is handled: when the check or the mint the callback called
\* for a SPENT update or a paid quote ends, however it ends, and when the error
\* callback has run; when the subscription cannot be set up the polling worker
\* is enqueued.
callbackEnds(p) == pc[p] # "idle" /\ pc'[p] = "idle" /\ loc[p].unsub # 0
WsAlwaysUnsubscribed ==
    [][ /\ \A p \in Procs :
              callbackEnds(p) => ~subscriptions'[loc[p].unsub].open
        /\ \A n \in DOMAIN subscriptions :
              ~subscriptions[n].error /\ subscriptions'[n].error
                  => ~subscriptions'[n].open
        /\ last' # last /\ last'.path = "setup_failed" =>
              \/ last'.op = "onTokenPaid"
                   /\ checkTokenSpendableWorker(last'.inputs) \in workers'
              \/ last'.op = "mintOnPaid"
                   /\ invoiceCheckWorker(last'.quote) \in workers' ]_vars

(***************************************************************************)
(* Order of effects within send and melt                                   *)
(***************************************************************************)
\* C31: while the split request of a send is in flight the stored keyset
\* counter is already ahead of the counter handed to the mint (the bump comes
\* before the request), and the proof store is changed only when the request
\* has returned.
sendInFlight(p) == pc[p] = "send_wait"
SendBumpsBeforeRequest ==
    \A p \in Procs :
        sendInFlight(p) =>
            /\ loc[p].keysetId \in DOMAIN keysetCounters
            /\ keysetCounters[loc[p].keysetId] > loc[p].counter

\* a melt quote whose fee reserve asks for two blank outputs; the mint does
\* not settle it: a melt request for it fails
HighFeeQuote == [quote |-> "q4", amount |-> 1, fee_reserve |-> 4]
\* the wallet with a session that holds any of the quotes
InitFees ==
    /\ pc = [ p \in Procs |-> "idle" ]
    /\ loc = [ p \in Procs |-> NoLoc ]
    /\ mutex = 0
    /\ proofs = InitProofs
    /\ keysetCounters \in { << >>, (KeysetId :> 1) }
    /\ invoiceHistory = << >>
    /\ historyTokens = << >>
    /\ payInvoiceData \in
           { LoadedSession(b, r) : b \in Bolt11s,
                                   r \in MeltQuoteResponses \cup { RefundQuote, HighFeeQuote } }
    /\ isUnloading = FALSE
    /\ meltState = [ q \in Quotes |-> [ state |-> "UNPAID", inputs |-> {} ] ]
    /\ mintSpent = {}
    /\ calls = 0
    /\ last = NoRet
    /\ mnemonic = 1
    /\ oldMnemonicCounters = << >>
    /\ subscriptions = << >>
    /\ workers = {}
SpecFees == InitFees /\ [][MeltingNext]_vars

\* C32: melt bumps the keyset counter by the number of send proofs plus
\* max(ceil(log2(fee_reserve)), 1) change outputs (none for fee_reserve 0)
\* before the melt request is issued, hands the mint the counter read before
\* the bump, and makes the rollback bump on an UNPAID quote while it holds the
\* mutex.
meltIssuesRequest(p) == pc[p] = "melt_cs" /\ pc'[p] = "melt_wait"
meltRollsBack(p) ==
    pc[p] = "melt_requery" /\ pc'[p] = "idle" /\ last'.path = "rollback"
changeOutputsOf(fee_reserve) ==
    IF fee_reserve = 0 THEN 0
    ELSE LET k == CHOOSE n \in 0..16 : Pow2(n) >= fee_reserve
                                       /\ \A m \in 0..16 : Pow2(m) >= fee_reserve => n <= m
         IN  IF k > 1 THEN k ELSE 1
MeltBumpsBeforeRequest ==
    [][ \A p \in Procs :
          /\ meltIssuesRequest(p) =>
               LET id == loc[p].keysetId
                   read == IF id \in DOMAIN keysetCounters THEN keysetCounters[id] ELSE 1
               IN  /\ mutex = p /\ mutex' = p
                   /\ loc'[p].counter = read
                   /\ keysetCounters'[id] =
                        read + Cardinality(loc[p].sendProofs)
                             + changeOutputsOf(loc[p].quote.fee_reserve)
          /\ meltRollsBack(p) => mutex = p ]_vars
\* the counter read as 1 and bumped by 2 send proofs and 2 change outputs is
\* stored while the request for the quote with fee reserve 4 is in flight
MeltBumpsBeforeRequestWitness ==
    \E p \in Procs :
        /\ pc[p] = "melt_wait"
        /\ loc[p].quote.fee_reserve = 4
        /\ loc[p].counter = 1
        /\ Cardinality(loc[p].sendProofs) = 2
        /\ keysetCounters[loc[p].keysetId] = 5


\* C33: the pending entry of an outgoing payment (amount -(amount +
\* fee_reserve), status pending) is appended, and the send proofs are reserved
\* under the quote id, in the step of melt that issues the request: after send
\* has handed melt its send proofs and before the mint can see the request. No
\* other step adds an entry or reserves for a quote, and a melt whose send
\* fails ends with the history as it was.
meltSendFails(p) ==
    pc[p] # "idle" /\ pc'[p] = "idle" /\ loc[p].op = "melt" /\ last'.path = "send_failed"
PendingEntryBeforeRequest ==
    [][ /\ \A p \in Procs :
             meltIssuesRequest(p) =>
                 LET q == loc[p].quote
                     n == Len(invoiceHistory')
                 IN  /\ loc[p].sendProofs # {}
                     /\ n = Len(invoiceHistory) + 1
                     /\ SubSeq(invoiceHistory', 1, n - 1) = invoiceHistory
                     /\ invoiceHistory'[n].amount = -(q.amount + q.fee_reserve)
                     /\ invoiceHistory'[n].status = "pending"
                     /\ invoiceHistory'[n].quote = q.quote
                     /\ \A s \in loc[p].sendProofs :
                            proofs[s].st = "store" =>
                                proofs'[s].reserved /\ proofs'[s].quote = q.quote
        /\ Len(invoiceHistory') > Len(invoiceHistory) =>
               \E p \in Procs : meltIssuesRequest(p)
        /\ (\E s \in Secrets : proofs'[s].quote # proofs[s].quote
                               /\ proofs'[s].quote # NoQuote) =>
               \E p \in Procs : meltIssuesRequest(p)
        /\ \A p \in Procs : meltSendFails(p) => invoiceHistory' = invoiceHistory ]_vars
\* a request in flight for the quote of 1 sat with fee reserve 4: the pending
\* entry of -5 sat is the last of the history and the send proofs are reserved
\* for the quote
PendingEntryBeforeRequestWitness ==
    \E p \in Procs :
        /\ pc[p] = "melt_wait"
        /\ loc[p].quote = HighFeeQuote
        /\ Len(invoiceHistory) > 0
        /\ invoiceHistory[Len(invoiceHistory)].amount = -5
        /\ invoiceHistory[Len(invoiceHistory)].status = "pending"
        /\ \A s \in loc[p].sendProofs : proofs[s].reserved /\ proofs[s].quote = "q4"


\* C34: a send whose candidates sum exactly to amount plus fees returns from
\* its critical section without a request to the mint: the keyset counter and
\* the mint's state are unchanged, no proof is added to the store, the
\* candidates are the send proofs and nothing is kept, and every send proof the
\* store holds is reserved, or gone from the store when invalidate is set. When
\* every selection is exact, send does not ask the mint for a split.
sendReturnsUnsplit(p) ==
    /\ pc[p] = "send_cs" /\ pc'[p] = "idle"
    /\ loc[p].op = "send" /\ last'.slot = p /\ last'.err = ""
selectionsOf(p) ==
    coinSelect(proofs, spendableProofs(proofs, loc[p].proofs), loc[p].amount,
               loc[p].includeFees)
exactFor(p, S) ==
    sumProofs(proofs, S) =
        loc[p].amount + (IF loc[p].includeFees THEN Cardinality(S) * InputFee ELSE 0)
SendExactNoSplit ==
    [][ \A p \in Procs :
          /\ sendReturnsUnsplit(p) =>
               /\ last'.inputs \in selectionsOf(p)
               /\ exactFor(p, last'.inputs)
               /\ last'.outputs = {}
               /\ keysetCounters' = keysetCounters
               /\ mintSpent' = mintSpent /\ meltState' = meltState
               /\ InStore(proofs') \subseteq InStore(proofs)
               /\ \A s \in Secrets :
                    IF s \in last'.inputs
                    THEN IF loc[p].invalidate
                         THEN proofs'[s].st # "store"
                         ELSE /\ proofs'[s].st = proofs[s].st
                              /\ proofs'[s].st = "store" => proofs'[s].reserved
                    ELSE proofs'[s] = proofs[s]
          /\ ( /\ pc[p] = "send_cs"
               /\ ~BalanceTooLow(proofs, loc[p].proofs, loc[p].amount)
               /\ \A S \in selectionsOf(p) : exactFor(p, S) ) =>
                   pc'[p] # "send_wait" ]_vars
\* send(3 sat) has returned the proofs of 1 and 2 sat, reserved in the store,
\* and kept nothing, with no counter stored
SendExactNoSplitWitness ==
    /\ last.op = "send" /\ last.path = "no_split"
    /\ last.inputs = { 1, 2 } /\ last.outputs = {}
    /\ \A s \in last.inputs : proofs[s].st = "store" /\ proofs[s].reserved
    /\ keysetCounters = << >>


(* The order of the requests of multiPathMeltQuotes *)
\* the payload whose request is in flight: the first one not answered yet
payloadInFlight(p) == loc[p].payloads[Len(loc[p].responses) + 1]
\* the mint asked answers with a quote for the partial amount of the payload
multiPathAnswer(p) ==
    /\ pc[p] = "multiPath_wait"
    /\ multiPathResponse(p, [ quote |-> "q3", amount |-> payloadInFlight(p).amount,
                              fee_reserve |-> 1 ])
MppOrderNext ==
    \/ \E p \in Procs : multiPathMeltQuotesReject(p)
    \/ \E p \in Procs, m \in MppMints : multiPathMeltQuotesCall(p, m)
    \/ \E p \in Procs : multiPathAnswer(p)
    \/ \E p \in Procs : multiPathFail(p, NetworkError)
SpecMppOrder == InitMpp /\ [][MppOrderNext]_vars

\* C35: multiPathMeltQuotes has one request in flight at a time and the answers
\* come in the order of the payloads; a failure ends the call with no further
\* request, the responses of the session as they were, the error stored and the
\* latch cleared.
multiPathFails(p) ==
    pc[p] = "multiPath_wait" /\ pc'[p] = "idle" /\ last'.path = "failed"
multiPathCompletes(p) ==
    pc[p] = "multiPath_wait" /\ pc'[p] = "idle" /\ last'.path = "ok"
MultiPathInOrder ==
    [][ \A p \in Procs :
          /\ pc'[p] = "multiPath_wait" =>
               /\ Len(loc'[p].responses) < Len(loc'[p].payloads)
               /\ \A i \in DOMAIN loc'[p].responses :
                      loc'[p].responses[i].amount = loc'[p].payloads[i].amount
               /\ \A o \in Procs \ {p} : pc'[o] # "multiPath_wait"
               /\ payInvoiceData'.multiPartMeltQuotes.responses =
                      payInvoiceData.multiPartMeltQuotes.responses
          /\ (pc[p] = "multiPath_wait" /\ pc'[p] = "multiPath_wait"
                                       /\ loc'[p] # loc[p]) =>
               /\ loc'[p].payloads = loc[p].payloads
               /\ Len(loc'[p].responses) = Len(loc[p].responses) + 1
               /\ SubSeq(loc'[p].responses, 1, Len(loc[p].responses)) = loc[p].responses
          /\ multiPathCompletes(p) =>
               LET responses == payInvoiceData'.multiPartMeltQuotes.responses
               IN  /\ Len(responses) = Len(loc[p].payloads)
                   /\ \A i \in DOMAIN responses :
                          responses[i].amount = loc[p].payloads[i].amount
          /\ multiPathFails(p) =>
               /\ payInvoiceData'.multiPartMeltQuotes.responses =
                      payInvoiceData.multiPartMeltQuotes.responses
               /\ payInvoiceData'.multiPartMeltQuotes.error = last'.err
               /\ last'.err # ""
               /\ ~payInvoiceData'.blocking ]_vars
\* a call has failed: the session still holds the three responses of the call
\* before, in the order of its payloads, the error is stored and the latch is
\* clear
MultiPathInOrderWitness ==
    /\ last.op = "multiPathMeltQuotes" /\ last.path = "failed"
    /\ Len(payInvoiceData.multiPartMeltQuotes.responses) = 3
    /\ payInvoiceData.multiPartMeltQuotes.responses[1].amount = 167
    /\ payInvoiceData.multiPartMeltQuotes.responses[2].amount = 99
    /\ payInvoiceData.multiPartMeltQuotes.responses[3].amount = 67
    /\ payInvoiceData.multiPartMeltQuotes.error = NetworkError
    /\ ~payInvoiceData.blocking


(* Reading and bumping a keyset counter *)
\* the largest stored counter and the largest bump drawn
MaxCounter == 5
MaxDelta == 3
\* the keyset ids of the mint
CounterIds == { MintKeysets[i].id : i \in DOMAIN MintKeysets }
\* the counters stored: none, or one for some keyset
StoredCounters ==
    { << >> } \cup { (id :> c) : id \in CounterIds, c \in 1..MaxCounter }
\* a wallet about to read and bump the counter of keyset arg[1] by arg[2]
InitCounters ==
    /\ pc = [ p \in Procs |-> "idle" ]
    /\ loc = [ p \in Procs |-> NoLoc ]
    /\ mutex = 0
    /\ proofs = InitProofs
    /\ keysetCounters \in StoredCounters
    /\ invoiceHistory = << >>
    /\ historyTokens = << >>
    /\ payInvoiceData = NewSession
    /\ isUnloading = FALSE
    /\ meltState = [ q \in Quotes |-> [ state |-> "UNPAID", inputs |-> {} ] ]
    /\ mintSpent = {}
    /\ calls = 0
    /\ last \in { [ NoRet EXCEPT !.op = "counters", !.arg = << id, by >> ] :
                    id \in CounterIds, by \in (0 - MaxDelta)..MaxDelta }
    /\ mnemonic = 1
    /\ oldMnemonicCounters = << >>
    /\ subscriptions = << >>
    /\ workers = {}

\* increaseKeysetCounter(id, by), then keysetCounter(id)
bumpThenRead ==
    /\ last.op = "counters"
    /\ LET id == last.arg[1]
           bumped == increaseKeysetCounter(keysetCounters, id, last.arg[2])
       IN  /\ keysetCounters' = keysetCounterStore(bumped, id)
           /\ last' = [ NoRet EXCEPT !.op = "bumpThenRead", !.path = "ok",
                                     !.arg = last.arg,
                                     !.value = << keysetCounter(bumped, id) >> ]
    /\ UNCHANGED << pc, loc, mutex, proofs, invoiceHistory, historyTokens,
                    payInvoiceData, isUnloading, meltState, mintSpent, calls,
                    mnemonic, oldMnemonicCounters, subscriptions, workers >>

\* keysetCounter(id), then increaseKeysetCounter(id, by)
readThenBump ==
    /\ last.op = "counters"
    /\ LET id == last.arg[1]
           read == keysetCounterStore(keysetCounters, id)
       IN  /\ keysetCounters' = increaseKeysetCounter(read, id, last.arg[2])
           /\ last' = [ NoRet EXCEPT !.op = "readThenBump", !.path = "ok",
                                     !.arg = last.arg,
                                     !.value = << keysetCounter(keysetCounters, id) >> ]
    /\ UNCHANGED << pc, loc, mutex, proofs, invoiceHistory, historyTokens,
                    payInvoiceData, isUnloading, meltState, mintSpent, calls,
                    mnemonic, oldMnemonicCounters, subscriptions, workers >>

CountersNext == bumpThenRead \/ readThenBump
SpecCounters == InitCounters /\ [][CountersNext]_vars

\* C36: the counter read after a bump by d is the counter a read would have
\* returned before the bump plus d (a keyset with no stored counter reads 1),
\* and a read followed by a bump ends in the same stored counter.
readBefore(id) == IF id \in DOMAIN keysetCounters THEN keysetCounters[id] ELSE 1
BumpAddsToRead ==
    [][ LET id == last.arg[1]
            d == last.arg[2]
        IN  /\ last'.op = "bumpThenRead" =>
                /\ last'.value[1] = readBefore(id) + d
                /\ keysetCounters'[id] = readBefore(id) + d
            /\ last'.op = "readThenBump" =>
                keysetCounters'[id] = readBefore(id) + d ]_vars


(* Concurrent sends over proof lists read at the call *)
\* C37: no proof is handed to the mint by two operations: the proofs of a split
\* request in flight are proofs the store holds, not reserved, and not spent
\* at the mint by an earlier operation.
SendInputsNotReused ==
    \A p \in Procs :
        sendInFlight(p) =>
            \A s \in loc[p].proofsToSend :
                /\ s \notin mintSpent
                /\ proofs[s].st = "store"
                /\ ~proofs[s].reserved


(* Polling a quote while its melt is in flight *)
\* C38: while a melt for quote q waits for the mint's answer to its melt
\* request, no step of another operation unreserves a proof reserved for q or
\* removes an entry of q from the history.
meltWaits(p) == pc[p] = "melt_wait" /\ pc'[p] = "melt_wait"
MeltInFlightKeepsPending ==
    [][ \A p \in Procs :
          meltWaits(p) =>
              LET q == loc[p].quote.quote
              IN  /\ \A s \in loc[p].sendProofs :
                         (proofs[s].reserved /\ proofs[s].quote = q) =>
                             (proofs'[s].reserved /\ proofs'[s].quote = q)
                  /\ Cardinality({ i \in DOMAIN invoiceHistory' :
                                     invoiceHistory'[i].quote = q }) >=
                     Cardinality({ i \in DOMAIN invoiceHistory :
                                     invoiceHistory[i].quote = q }) ]_vars


(* Progress of the operations that take the engine mutex *)
\* the labels at which a slot waits for the engine mutex
Waiting == { "send_lock", "melt_lock", "mint_lock", "redeem_lock" }
\* a wallet with no counter stored and a session that holds the quote q1
InitProgress ==
    /\ Init
    /\ keysetCounters = << >>
    /\ payInvoiceData.meltQuote.response.quote = "q1"
\* mint, send, redeem and melt, each with one input, a mint that answers or
\* fails, and a network that may fail
ProgressNext ==
    \/ \E p \in Procs, amount \in { 1, 8 } : sendCall(p, amount, FALSE, FALSE)
    \/ \E p \in Procs : sendLock(p)
    \/ \E p \in Procs : sendBalanceTooLow(p)
    \/ \E p \in Procs : sendNoSplit(p)
    \/ \E p \in Procs : sendSplitRequest(p)
    \/ \E p \in Procs : sendSplitOk(p)
    \/ \E p \in Procs : sendSplitFail(p, NetworkError)
    \/ \E p \in Procs : meltCall(p)
    \/ \E p \in Procs : meltLock(p)
    \/ \E p \in Procs : meltRequest(p)
    \/ \E p \in Procs : meltOk(p, 0)
    \/ \E p \in Procs : meltNotPaid(p)
    \/ \E p \in Procs : meltThrow(p, NetworkError)
    \/ \E p \in Procs : meltRequeryKeep(p)
    \/ \E p \in Procs : meltRollback(p)
    \/ \E p \in Procs : meltRequeryThrows(p)
    \/ \E p \in Procs : mintAcceptsMelt(p)
    \/ \E q \in Quotes : mintSettles(q)
    \/ \E q \in Quotes : mintPaymentFails(q)
    \/ \E p \in Procs, a \in MintAmounts, q \in MintQuotes : mintCall(p, a, q)
    \/ \E p \in Procs : mintLock(p)
    \/ \E p \in Procs : mintNotPaid(p, "UNPAID")
    \/ \E p \in Procs : mintCheckFail(p, NetworkError)
    \/ \E p \in Procs : mintRequest(p)
    \/ \E p \in Procs : mintOk(p)
    \/ \E p \in Procs : mintFail(p, NetworkError)
    \/ \E p \in Procs : redeemCall(p, ReceivedToken)
    \/ \E p \in Procs : redeemActivateFail(p, NetworkError)
    \/ \E p \in Procs : redeemLock(p)
    \/ \E p \in Procs : redeemOk(p)
    \/ \E p \in Procs : redeemFail(p, NetworkError)
\* the operation in slot p goes on: the event loop runs a continuation that is
\* ready, and a network call returns or fails
proceeds(p) == ProgressNext /\ pc[p] # "idle" /\ pc'[p] # pc[p]
\* the operations that take the mutex, none of them suspended for ever where it
\* can go on
SpecProgress ==
    /\ InitProgress
    /\ [][ProgressNext]_vars
    /\ \A p \in Procs : WF_vars(proceeds(p))

\* C39: no operation waits for the engine mutex while it holds it; every
\* operation that waits for the mutex gets it (a redeem may leave before it asks
\* for the mutex, when the activation of the mint fails), and every started
\* mint, send, redeem and melt ends.
leftBeforeLock(p) == last.slot = p /\ last.path = "activate_failed"
EngineProgress ==
    /\ [](\A p \in Procs : pc[p] \in Waiting => mutex # p)
    /\ \A p \in Procs : (pc[p] \in Waiting) ~> (mutex = p \/ leftBeforeLock(p))
    /\ \A p \in Procs : (pc[p] # "idle") ~> (pc[p] = "idle")
\* a melt waits for the mutex after its send, which has given it up, while
\* another operation holds it
EngineProgressWitness ==
    \E p \in Procs :
        /\ pc[p] = "melt_lock"
        /\ mutex \in Procs \ { p }


====
